---- MODULE Spec2Model ----
(***************************************************************************)
(* A model of the record-reconciliation core of cars_scraper:              *)
(*   - deduplicate_listings            (deduplicate.py)                    *)
(*   - CheckpointManager save / load   (checkpoint.py)                     *)
(*   - MultiDealershipScraper          (scrapers/generic_scraper.py)       *)
(*   - DataValidator.validate_listing  (validator.py)                      *)
(*   - cli.main                        (cli.py)                            *)
(*   - CarListing.price, __post_init__ (models.py)                         *)
(*   - _extract_price_from_page        (scraper.py, car_regexes.py)        *)
(*   - parse_detail_page               (scrapers/, scraper.py)             *)
(*   - normalize_drivetrain            (car_regexes.py)                    *)
(*                                                                         *)
(* Python values are represented as follows.                               *)
(*   str            a sequence of atoms (one-character strings, or a       *)
(*                  scheme / word treated as one unit), "" is << >>        *)
(*   None (str)     NoneStr                                                *)
(*   Optional num   << >> for None, <<n>> for the number n                 *)
(*   datetime       <<seconds, microseconds>>, None is << >>               *)
(***************************************************************************)
EXTENDS Integers, Sequences, FiniteSets, TLC

VARIABLES
    \* ---- deduplicate_listings (one call) ----
    cars,             \* the input consumed so far by the for loop
    prefer_latest,    \* the prefer_latest argument
    seen_by_vin,      \* Dict[str, CarListing]
    seen_by_url,      \* Dict[str, CarListing]
    deduplicated,     \* List[CarListing]
    stats,            \* the stats dict
    dd_pc,            \* "loop" inside the for loop, "returned" after return
    \* ---- the disk ----
    fs,               \* path -> file content
    \* ---- CheckpointManager (in memory) ----
    completed_dealerships,
    scraped_listings,
    start_time,
    last_update,
    load_result,      \* what the last load() returned: "none" before any call
    aliased,          \* TRUE when the manager's set and list are the caller's objects
    \* ---- the caller of save(): scrape_all, or a direct caller ----
    all_listings,     \* the list handed to save()
    completed_local,  \* the set handed to save() (scrape_all's completed_dealerships)
    remaining,        \* scrape_all's remaining_dealerships
    idx,              \* position of the for loop in remaining
    listings,         \* what scraper.scrape() returned for the current source
    pc,               \* position of the process
    ret,              \* where the running save() returns to
    now,              \* datetime.now()
    \* ---- the environment ----
    catalog,          \* the DealershipInfo rows of dealerships.csv, in file order
    runs,             \* processes started so far
    output,           \* the listings in the output file of StreamingOutputWriter
    \* ---- one call of a pure function ----
    fn,               \* the function called, "none" before the call
    arg,              \* its argument
    retval,           \* what it returned
    \* ---- StreamingOutputWriter (json format) ----
    out_text,         \* the text of the file at output_path
    appended,         \* the lists handed to append_cars so far
    w_pc,             \* "new" before __init__, "open", "finalized", "counted"
    w_count,          \* what get_count returned
    \* ---- history (read by the properties only) ----
    hist

dedupVars == <<cars, prefer_latest, seen_by_vin, seen_by_url, deduplicated, stats, dd_pc>>

managerVars ==
    <<completed_dealerships, scraped_listings, start_time, last_update, load_result, aliased>>

callerVars == <<all_listings, completed_local, remaining, idx, listings>>

runVars == <<fs, managerVars, callerVars, pc, ret, now, catalog, runs, output, hist>>

pureVars == <<fn, arg, retval>>

writerVars == <<out_text, appended, w_pc, w_count>>

vars == <<dedupVars, runVars, pureVars, writerVars>>

-----------------------------------------------------------------------------
(* Bounds of the model *)

MaxBatch == 3

\* processes started on one checkpoint file
MaxRuns == 2

\* direct calls of save() on one checkpoint file
MaxSaves == 2

-----------------------------------------------------------------------------
(* Python values *)

NoneStr == <<"<None>">>
NoneNum == << >>
NoneDt  == << >>

Some(n) == <<n>>

\* a truth test that takes only None for absent
Truthy_NoneOnly(s) == s # NoneStr

\* bool(s) for an Optional[str]: None and "" are falsy
Truthy(s) == s # NoneStr /\ s # << >>

IsSpace(c) == c \in {" ", "\t", "\n"}

Uppers ==
    <<"A", "B", "C", "D", "E", "F", "G", "H", "I", "J", "K", "L", "M",
      "N", "O", "P", "Q", "R", "S", "T", "U", "V", "W", "X", "Y", "Z", "HTTP">>

Lowers ==
    <<"a", "b", "c", "d", "e", "f", "g", "h", "i", "j", "k", "l", "m",
      "n", "o", "p", "q", "r", "s", "t", "u", "v", "w", "x", "y", "z", "http">>

UpperCh(c) ==
    IF \E i \in 1..Len(Lowers) : Lowers[i] = c
    THEN Uppers[CHOOSE i \in 1..Len(Lowers) : Lowers[i] = c]
    ELSE c

LowerCh(c) ==
    IF \E i \in 1..Len(Uppers) : Uppers[i] = c
    THEN Lowers[CHOOSE i \in 1..Len(Uppers) : Uppers[i] = c]
    ELSE c

RECURSIVE LStrip(_)
LStrip(s) == IF s # << >> /\ IsSpace(Head(s)) THEN LStrip(Tail(s)) ELSE s

RECURSIVE RStrip(_)
RStrip(s) ==
    IF s # << >> /\ IsSpace(s[Len(s)]) THEN RStrip(SubSeq(s, 1, Len(s) - 1)) ELSE s

\* str.strip()
Strip(s) == RStrip(LStrip(s))

\* str.upper(), str.lower()
Upper(s) == [i \in 1..Len(s) |-> UpperCh(s[i])]
Lower(s) == [i \in 1..Len(s) |-> LowerCh(s[i])]

\* a comparison that also holds for equal instants
DtGreater_OrEqual(a, b) == a[1] > b[1] \/ (a[1] = b[1] /\ a[2] >= b[2])

\* datetime comparison a > b
DtGreater(a, b) == a[1] > b[1] \/ (a[1] = b[1] /\ a[2] > b[2])

\* list.remove(x): removes the first element equal to x
RECURSIVE RemoveFirst(_, _)
RemoveFirst(s, x) ==
    IF s = << >> THEN << >>
    ELSE IF Head(s) = x THEN Tail(s)
    ELSE <<Head(s)>> \o RemoveFirst(Tail(s), x)

InSeq(x, s) == \E i \in 1..Len(s) : s[i] = x

-----------------------------------------------------------------------------
(* CarListing (models.py).  The fields the modelled code reads. *)

CarListing(dealer, url, vin, year, make, model, sale, total, msrp, fuel, mileage, at) ==
    [dealer_name |-> dealer, dealer_website |-> <<"http", "d">>, vehicle_url |-> url,
     year |-> year, make |-> make, model |-> model, new_used |-> <<"new">>,
     fuel_type |-> fuel, msrp |-> msrp, sale_price |-> sale, total_price |-> total,
     vin |-> vin, mileage |-> mileage, scraped_at |-> at]

-----------------------------------------------------------------------------
(* deduplicate_listings *)

\* a listing as deduplicate_listings sees it: only vin, vehicle_url and
\* scraped_at are read; the other fields take part in "==" alone
Listing(v, u, t) ==
    CarListing(<<"d">>, u, v, 2024, <<"Tesla">>, <<"Model 3">>,
               Some(40000), NoneNum, NoneNum, <<"electric">>, NoneNum, t)

Stamps == {NoneDt, <<1, 0>>, <<2, 0>>}

\* listings whose keys are written in normalised spelling
CanonPool ==
    { Listing(v, u, t) : v \in {NoneStr, <<"A">>, <<"B">>},
                         u \in {<<"u">>, <<"w">>}, t \in Stamps }

\* other spellings of the same keys (case, surrounding blanks), and the
\* listing that carries neither key
VariantPool ==
    { Listing(p[1], p[2], t) :
        p \in { <<<<"a", " ">>, <<"u">>>>, <<<<"a", " ">>, <<"w">>>>,
                <<NoneStr, <<" ", "U">>>>, <<<<"B">>, <<" ", "U">>>>,
                <<NoneStr, << >>>> },
        t \in {<<1, 0>>, <<2, 0>>} }

\* the records a batch is drawn from
DedupPool == CanonPool \cup VariantPool

vin_normalized(car) == Upper(Strip(car.vin))

\* the URL key taken as written
url_normalized_Raw(car) == car.vehicle_url

url_normalized(car) == Lower(Strip(car.vehicle_url))

\* a test that replaces by age whatever prefer_latest says
ReplacesExisting_AlwaysLatest(prefer, car, existing) ==
    /\ car.scraped_at # NoneDt
    /\ existing.scraped_at # NoneDt
    /\ DtGreater(car.scraped_at, existing.scraped_at)

\* "if prefer_latest and car.scraped_at and existing.scraped_at:
\*      if car.scraped_at > existing.scraped_at:"
ReplacesExisting(prefer, car, existing) ==
    /\ prefer
    /\ car.scraped_at # NoneDt
    /\ existing.scraped_at # NoneDt
    /\ DtGreater(car.scraped_at, existing.scraped_at)

\* a replacement that forgets to remove the stored survivor
ReplaceInList_KeepOld(list, existing, car) == Append(list, car)

\* "if existing in deduplicated: deduplicated.remove(existing)"
\* "deduplicated.append(car)"
ReplaceInList(list, existing, car) ==
    Append(IF InSeq(existing, list) THEN RemoveFirst(list, existing) ELSE list, car)

\* One iteration of the for loop, on the loop state
\* st = [seen_by_vin, seen_by_url, deduplicated, dup_vin, dup_url].
DedupIter(st, car, prefer) ==
    LET hasVin  == Truthy(car.vin)
        vkey    == vin_normalized(car)
        vinDup  == hasVin /\ vkey \in DOMAIN st.seen_by_vin
        vExist  == st.seen_by_vin[vkey]
        vRepl   == vinDup /\ ReplacesExisting(prefer, car, vExist)
        \* state after the VIN block
        sbv1    == IF hasVin /\ (~vinDup \/ vRepl)
                   THEN [k \in DOMAIN st.seen_by_vin \cup {vkey} |->
                            IF k = vkey THEN car ELSE st.seen_by_vin[k]]
                   ELSE st.seen_by_vin
        list1   == IF vRepl THEN ReplaceInList(st.deduplicated, vExist, car)
                   ELSE st.deduplicated
        \* the URL block runs only "if not is_duplicate and car.vehicle_url"
        hasUrl  == ~vinDup /\ Truthy(car.vehicle_url)
        ukey    == url_normalized(car)
        urlDup  == hasUrl /\ ukey \in DOMAIN st.seen_by_url
        uExist  == st.seen_by_url[ukey]
        uRepl   == urlDup /\ ReplacesExisting(prefer, car, uExist)
        sbu1    == IF hasUrl /\ (~urlDup \/ uRepl)
                   THEN [k \in DOMAIN st.seen_by_url \cup {ukey} |->
                            IF k = ukey THEN car ELSE st.seen_by_url[k]]
                   ELSE st.seen_by_url
        list2   == IF uRepl THEN ReplaceInList(list1, uExist, car) ELSE list1
        is_dup  == vinDup \/ urlDup
    IN  [seen_by_vin  |-> sbv1,
         seen_by_url  |-> sbu1,
         deduplicated |-> IF is_dup THEN list2 ELSE Append(list2, car),
         dup_vin      |-> st.dup_vin + (IF vinDup THEN 1 ELSE 0),
         dup_url      |-> st.dup_url + (IF urlDup THEN 1 ELSE 0)]

EmptyMap == [k \in {} |-> << >>]

DedupStart == [seen_by_vin |-> EmptyMap, seen_by_url |-> EmptyMap,
               deduplicated |-> << >>, dup_vin |-> 0, dup_url |-> 0]

\* the for loop over a whole list
RECURSIVE DedupFold(_, _, _)
DedupFold(st, list, prefer) ==
    IF list = << >> THEN st
    ELSE DedupFold(DedupIter(st, Head(list), prefer), Tail(list), prefer)

\* the list deduplicate_listings(cars, prefer_latest) returns
deduplicate_listings(list, prefer) == DedupFold(DedupStart, list, prefer).deduplicated

ZeroStats == [total |-> 0, duplicates_by_vin |-> 0, duplicates_by_url |-> 0, final |-> 0]

\* the body of "for car in cars" on the next element of the input
DedupStep(car) ==
    /\ dd_pc = "loop"
    /\ Len(cars) < MaxBatch
    /\ LET st == DedupIter([seen_by_vin |-> seen_by_vin, seen_by_url |-> seen_by_url,
                            deduplicated |-> deduplicated,
                            dup_vin |-> stats.duplicates_by_vin,
                            dup_url |-> stats.duplicates_by_url], car, prefer_latest)
       IN  /\ seen_by_vin' = st.seen_by_vin
           /\ seen_by_url' = st.seen_by_url
           /\ deduplicated' = st.deduplicated
           /\ stats' = [stats EXCEPT !.total = Len(cars) + 1,
                                     !.duplicates_by_vin = st.dup_vin,
                                     !.duplicates_by_url = st.dup_url]
    /\ cars' = Append(cars, car)
    /\ UNCHANGED <<prefer_latest, dd_pc, runVars, pureVars, writerVars>>

\* the input is exhausted: "stats['final'] = len(deduplicated); return"
DedupReturn ==
    /\ dd_pc = "loop"
    /\ stats' = [stats EXCEPT !.final = Len(deduplicated)]
    /\ dd_pc' = "returned"
    /\ UNCHANGED <<cars, prefer_latest, seen_by_vin, seen_by_url, deduplicated, runVars, pureVars, writerVars>>

DedupNext ==
    \/ \E car \in DedupPool : DedupStep(car)
    \/ DedupReturn


-----------------------------------------------------------------------------
(* CarListing.__post_init__ *)

\* datetime.now().year
CurrentYear == 2026

Conditions == {<<"new">>, <<"used">>, <<"cpo">>}

NonNegOrNone(x) == x = NoneNum \/ x[1] >= 0

\* a constructor that accepts any year
PostInitOk_AnyYear(d) ==
    /\ Truthy(d.dealer_name)
    /\ Truthy(d.dealer_website)
    /\ Truthy(d.vehicle_url)
    /\ Truthy(d.make)
    /\ Truthy(d.model)
    /\ d.new_used \in Conditions
    /\ NonNegOrNone(d.mileage)
    /\ NonNegOrNone(d.msrp)
    /\ NonNegOrNone(d.sale_price)
    /\ NonNegOrNone(d.total_price)

\* TRUE when __post_init__ raises nothing on these field values
PostInitOk(d) ==
    /\ Truthy(d.dealer_name)
    /\ Truthy(d.dealer_website)
    /\ Truthy(d.vehicle_url)
    /\ Truthy(d.make)
    /\ Truthy(d.model)
    /\ d.year >= 1900 /\ d.year <= CurrentYear + 1
    /\ d.new_used \in Conditions
    /\ NonNegOrNone(d.mileage)
    /\ NonNegOrNone(d.msrp)
    /\ NonNegOrNone(d.sale_price)
    /\ NonNegOrNone(d.total_price)

-----------------------------------------------------------------------------
(* The checkpoint file: JSON text, by its parsed content *)

JNull == << >>

\* datetime.isoformat(): the fraction is written only when it is not zero
isoformat(dt) == IF dt[2] = 0 THEN <<"T", dt[1]>> ELSE <<"T", dt[1], dt[2]>>

\* TRUE when datetime.fromisoformat accepts the string
IsIso(str) == Len(str) \in {2, 3} /\ str[1] = "T"

fromisoformat(str) == <<str[2], IF Len(str) = 3 THEN str[3] ELSE 0>>

NoData == [completed_dealerships |-> << >>, scraped_listings |-> << >>,
           start_time |-> JNull, last_update |-> JNull, version |-> "1.0"]

NoFile      == [kind |-> "absent", data |-> NoData]
\* a file whose writer stopped before the end of the document
PartialFile == [kind |-> "partial", data |-> NoData]
\* a file that holds no JSON document
GarbageFile == [kind |-> "garbage", data |-> NoData]
JsonFile(data) == [kind |-> "json", data |-> data]

checkpoint_file == ".scraper_checkpoint.json"

\* a temporary file named like the checkpoint itself
temp_file_InPlace == checkpoint_file

\* "temp_file = self.checkpoint_file.with_suffix('.tmp')"
temp_file == ".scraper_checkpoint.tmp"

Paths == {checkpoint_file, ".scraper_checkpoint.tmp"}

Range(q) == {q[i] : i \in 1..Len(q)}

\* list(a_set): the elements once each, in some order
Orderings(S) ==
    {q \in [1..Cardinality(S) -> S] : \A i, j \in 1..Cardinality(S) : i # j => q[i] # q[j]}

\* an isoformat that cuts the fraction of a second
stamp_json_Seconds(dt) == IF dt # NoneDt THEN <<"T", dt[1]>> ELSE JNull

\* "x.isoformat() if x else None"
stamp_json(dt) == IF dt # NoneDt THEN isoformat(dt) ELSE JNull

\* the listing_dict built for one listing
listing_dict(listing) == [listing EXCEPT !.scraped_at = stamp_json(listing.scraped_at)]

\* a dict that stores no listing
checkpoint_data_NoListings(order, list, start, last) ==
    [completed_dealerships |-> order,
     scraped_listings |-> << >>,
     start_time |-> stamp_json(start),
     last_update |-> isoformat(last),
     version |-> "1.0"]

\* the checkpoint_data dict, with the completed set listed in the given order
checkpoint_data(order, list, start, last) ==
    [completed_dealerships |-> order,
     scraped_listings |-> [i \in 1..Len(list) |-> listing_dict(list[i])],
     start_time |-> stamp_json(start),
     last_update |-> isoformat(last),
     version |-> "1.0"]

-----------------------------------------------------------------------------
(* CheckpointManager *)

FreshManager ==
    [completed_dealerships |-> {}, scraped_listings |-> << >>,
     start_time |-> NoneDt, last_update |-> NoneDt]

\* the loop over listings_data: the listings appended before the loop ended
\* or an element raised (fromisoformat, or CarListing(**listing_dict))
RECURSIVE DecodeListings(_)
DecodeListings(dicts) ==
    IF dicts = << >> THEN [listings |-> << >>, raised |-> FALSE]
    ELSE LET d     == Head(dicts)
             isStr == d.scraped_at # JNull
             car   == [d EXCEPT !.scraped_at =
                          IF isStr THEN fromisoformat(d.scraped_at) ELSE NoneDt]
         IN  IF (isStr /\ ~IsIso(d.scraped_at)) \/ ~PostInitOk(d)
             THEN [listings |-> << >>, raised |-> TRUE]
             ELSE LET rest == DecodeListings(Tail(dicts))
                  IN  [listings |-> <<car>> \o rest.listings, raised |-> rest.raised]

\* load() on a manager in state m: the value returned and the state left
Load(file, m) ==
    IF file.kind = "absent" THEN [ok |-> FALSE, m |-> m]
    ELSE IF file.kind # "json" THEN [ok |-> FALSE, m |-> m]
    ELSE LET data == file.data
             dec  == DecodeListings(data.scraped_listings)
             m1   == [m EXCEPT !.completed_dealerships = Range(data.completed_dealerships),
                               !.scraped_listings = dec.listings]
             m2   == [m1 EXCEPT !.start_time = fromisoformat(data.start_time)]
             m3   == [m2 EXCEPT !.last_update = fromisoformat(data.last_update)]
         IN  IF dec.raised THEN [ok |-> FALSE, m |-> m1]
             ELSE IF ~IsIso(data.start_time) THEN [ok |-> FALSE, m |-> m1]
             ELSE IF ~IsIso(data.last_update) THEN [ok |-> FALSE, m |-> m2]
             ELSE [ok |-> TRUE, m |-> m3]

\* a new CheckpointManager, then load()
NewManagerLoad ==
    LET r == Load(fs[checkpoint_file], FreshManager)
    IN  /\ completed_dealerships' = r.m.completed_dealerships
        /\ scraped_listings' = r.m.scraped_listings
        /\ start_time' = r.m.start_time
        /\ last_update' = r.m.last_update
        /\ load_result' = IF r.ok THEN "true" ELSE "false"
        /\ aliased' = FALSE

\* datetime.now() read again: a later instant, on a whole second every other time
Tick(dt) == <<dt[1] + 1, 7 - dt[2]>>

\* the memory of a process that has ended
NoProcess ==
    /\ completed_dealerships' = {}
    /\ scraped_listings' = << >>
    /\ start_time' = NoneDt
    /\ last_update' = NoneDt
    /\ load_result' = "none"
    /\ aliased' = FALSE
    /\ all_listings' = << >>
    /\ completed_local' = {}
    /\ remaining' = << >>
    /\ idx' = 0
    /\ listings' = << >>
    /\ ret' = "none"

\* a save() that lets the caller's process end
AfterSave_Propagates ==
    /\ idx' = idx
    /\ pc' = "dead"
    /\ UNCHANGED <<all_listings, completed_local>>

\* where control goes when save() returns
AfterSave ==
    CASE ret = "loop" ->
            /\ idx' = idx + 1
            /\ pc' = IF idx + 1 <= Len(remaining) THEN "loop" ELSE "final"
            /\ UNCHANGED <<all_listings, completed_local>>
      [] ret = "final" ->
            /\ idx' = idx
            /\ pc' = "done"
            /\ UNCHANGED <<all_listings, completed_local>>
      [] OTHER ->
            \* a direct caller: the arguments of the call are gone with it
            /\ idx' = idx
            /\ pc' = "idle"
            /\ all_listings' = << >>
            /\ completed_local' = {}

Persisted ==
    [valid |-> TRUE, completed |-> completed_dealerships, listings |-> scraped_listings,
     start_time |-> start_time, last_update |-> last_update]

NothingPersisted ==
    [valid |-> FALSE, completed |-> {}, listings |-> << >>,
     start_time |-> NoneDt, last_update |-> NoneDt]

\* save(), lines 86-91: the in-memory state is set before anything is written
SaveBegin ==
    /\ pc = "save_begin"
    /\ completed_dealerships' = completed_local
    /\ scraped_listings' = all_listings
    /\ last_update' = now
    /\ start_time' = IF start_time = NoneDt THEN now ELSE start_time
    /\ aliased' = TRUE
    /\ now' = Tick(now)
    /\ pc' = "save_open"
    /\ hist' = [hist EXCEPT !.sv_phase = "begun", !.sv_old = fs[checkpoint_file]]
    /\ UNCHANGED <<dedupVars, pureVars, writerVars, fs, load_result, callerVars, ret, catalog, runs, output>>

\* "with open(temp_file, 'w')": the temporary file exists, nothing is in it yet
SaveOpenTemp ==
    /\ pc = "save_open"
    /\ fs' = [fs EXCEPT ![temp_file] = PartialFile]
    /\ pc' = "save_write"
    /\ hist' = [hist EXCEPT !.sv_phase = "tmp_open"]
    /\ UNCHANGED <<dedupVars, pureVars, writerVars, managerVars, callerVars, ret, now, catalog, runs, output>>

\* "json.dump(checkpoint_data, f)" ran to its end and the file was closed
SaveWrite ==
    /\ pc = "save_write"
    /\ \E order \in Orderings(completed_local) :
          LET file == JsonFile(checkpoint_data(order, all_listings, start_time, last_update))
          IN  /\ fs' = [fs EXCEPT ![temp_file] = file]
              /\ hist' = [hist EXCEPT !.sv_phase = "tmp_written"]
    /\ pc' = "save_replace"
    /\ UNCHANGED <<dedupVars, pureVars, writerVars, managerVars, callerVars, ret, now, catalog, runs, output>>

\* "temp_file.replace(self.checkpoint_file)"
SaveReplace ==
    /\ pc = "save_replace"
    /\ fs' = IF temp_file = checkpoint_file THEN fs
             ELSE [fs EXCEPT ![checkpoint_file] = fs[temp_file], ![temp_file] = NoFile]
    /\ hist' = [hist EXCEPT !.sv_phase = "replaced", !.sv_old = NoFile,
                            !.persisted = Persisted, !.plog = hist.log,
                            !.saved_after = IF ret = "loop"
                                            THEN @ \cup {remaining[idx].name} ELSE @]
    /\ AfterSave
    /\ UNCHANGED <<dedupVars, pureVars, writerVars, managerVars, remaining, listings, ret, now, catalog, runs,
                   output>>

\* "except Exception as e: logger.error(...)": open, dump or replace raised
SaveFail ==
    /\ pc \in {"save_open", "save_write", "save_replace"}
    /\ hist' = [hist EXCEPT !.sv_phase = "failed"]
    /\ AfterSave
    /\ UNCHANGED <<dedupVars, pureVars, writerVars, fs, managerVars, remaining, listings, ret, now, catalog, runs,
                   output>>

-----------------------------------------------------------------------------
(* DataValidator.validate_listing *)

\* the keywords of the validator's lists that a word, lower-cased, contains
KeywordsIn(w) ==
    CASE w = "electric" -> {"electric"}
      [] w = "gasoline" -> {"gasoline", "gas"}
      [] w = "hybrid"   -> {"hybrid"}
      [] w = "test"     -> {"test"}
      [] OTHER          -> {}

\* any(kw in text.lower() for kw in kws)
ContainsAny(text, kws) ==
    text # NoneStr /\ \E i \in 1..Len(text) : KeywordsIn(text[i]) \cap kws # {}

ELECTRIC_MAKES ==
    {<<"Tesla">>, <<"Rivian">>, <<"Lucid">>, <<"Polestar">>, <<"BYD">>, <<"Nio">>, <<"Xpeng">>,
     <<"Fisker">>, <<"Lordstown">>, <<"Canoo">>, <<"Faraday Future">>}

ELECTRIC_MODELS ==
    {<<"Model S">>, <<"Model 3">>, <<"Model X">>, <<"Model Y">>, <<"R1T">>, <<"R1S">>,
     <<"Air">>, <<"Polestar 2">>, <<"Polestar 3">>, <<"Polestar 4">>, <<"Mustang Mach-E">>,
     <<"F-150 Lightning">>, <<"Bolt">>, <<"Bolt EUV">>, <<"Blazer EV">>, <<"Equinox EV">>,
     <<"Silverado EV">>, <<"IONIQ 5">>, <<"IONIQ 6">>, <<"Kona Electric">>, <<"EV6">>,
     <<"EV9">>, <<"Niro EV">>, <<"Ariya">>, <<"ID.4">>, <<"ID.Buzz">>, <<"e-tron">>,
     <<"Q4 e-tron">>, <<"e-tron GT">>, <<"EQE">>, <<"EQS">>, <<"EQB">>, <<"EQC">>, <<"iX">>,
     <<"i4">>, <<"iX1">>, <<"i5">>, <<"i7">>, <<"Lyriq">>, <<"bZ4X">>, <<"Solterra">>,
     <<"Prologue">>, <<"ZDX">>, <<"RZ">>}

\* CarListing.price
price(car) ==
    IF car.sale_price # NoneNum /\ car.sale_price[1] # 0 THEN car.sale_price[1]
    ELSE IF car.total_price # NoneNum /\ car.total_price[1] # 0 THEN car.total_price[1]
    ELSE IF car.msrp # NoneNum /\ car.msrp[1] # 0 THEN car.msrp[1]
    ELSE 0

\* CarListing.is_electric
is_electric(car) ==
    Truthy(car.fuel_type)
      /\ Lower(car.fuel_type) \in {<<"electric">>, <<"ev">>, <<"bev">>, <<"phev">>,
                                   <<"plug-in">>, <<"plugin">>}

_is_likely_electric(car) ==
    \/ car.make \in ELECTRIC_MAKES
    \/ car.model \in ELECTRIC_MODELS
    \/ ContainsAny(car.model, {"electric", "ev", "e-tron", "eq", "id.", "i4", "ix",
                               "ioniq", "mach-e", "lightning", "bolt", "leaf"})
    \/ (Truthy(car.fuel_type)
          /\ ContainsAny(car.fuel_type, {"electric", "ev", "bev", "phev", "plug"}))
    \/ is_electric(car)

\* str.startswith('http')
StartsWithHttp(text) == Len(text) > 0 /\ text[1] \in {"http", "https"}

\* trim, stock_number and exterior_color are None in every listing of the model
_looks_like_test_data(car) ==
    \E field \in {car.make, car.model, car.dealer_name, car.vin} :
        Truthy(field)
          /\ ContainsAny(field, {"test", "example", "sample", "placeholder", "demo", "xxx",
                                 "zzz", "abc123", "000000", "999999"})

\* the hard errors validate_listing collects
validation_errors(car, strict) ==
      (IF ~Truthy(car.make) \/ car.make = <<"Unknown">> THEN {"make"} ELSE {})
 \cup (IF ~Truthy(car.model) \/ car.model = <<"Unknown">> THEN {"model"} ELSE {})
 \cup (IF car.year < 2015 THEN {"year_old"}
       ELSE IF car.year > CurrentYear + 2 THEN {"year_future"} ELSE {})
 \cup (IF price(car) <= 0 THEN (IF strict THEN {"price_missing"} ELSE {})
       ELSE IF price(car) < 5000 THEN {"price_low"}
       ELSE IF price(car) > 250000 THEN {"price_high"} ELSE {})
 \cup (IF ~Truthy(car.vehicle_url) \/ ~StartsWithHttp(car.vehicle_url) THEN {"url"} ELSE {})
 \cup (IF ~Truthy(car.dealer_name) THEN {"dealer_name"} ELSE {})
 \cup (IF ~Truthy(car.dealer_website) \/ ~StartsWithHttp(car.dealer_website)
       THEN {"dealer_website"} ELSE {})
 \cup (IF ~_is_likely_electric(car) THEN {"not_electric"} ELSE {})
 \cup (IF Truthy(car.fuel_type)
          /\ ContainsAny(car.fuel_type, {"gasoline", "gas", "diesel", "flex", "e85"})
          /\ ~ContainsAny(car.fuel_type, {"hybrid", "phev"})
       THEN {"fuel"} ELSE {})
 \cup (IF car.mileage # NoneNum /\ car.mileage[1] > 300000 THEN {"mileage_high"} ELSE {})
 \cup (IF car.mileage # NoneNum /\ car.mileage[1] < 0 THEN {"mileage_negative"} ELSE {})
 \cup (IF _looks_like_test_data(car) THEN {"test_data"} ELSE {})

\* is_valid of validate_listing(car, strict)
is_valid(car, strict) == validation_errors(car, strict) = {}

\* a vehicle identification number is one word of a string; the well-formed
\* ones: 17 characters of [A-HJ-NPR-Z0-9]
WellFormedVins == {"5YJ3E1EA7KF317000", "KM8K33AGXNU123456"}

_is_valid_vin(vin) == Truthy(vin) /\ Len(vin) = 1 /\ vin[1] \in WellFormedVins

\* price_ranges of _validate_price_for_model, as <<make, model, min, max>>
price_ranges ==
    {<<"Tesla", "Model 3", 35000, 55000>>, <<"Tesla", "Model Y", 40000, 65000>>,
     <<"Tesla", "Model S", 75000, 120000>>, <<"Tesla", "Model X", 80000, 120000>>,
     <<"Hyundai", "IONIQ 5", 40000, 60000>>, <<"Hyundai", "IONIQ 6", 42000, 62000>>,
     <<"Hyundai", "Kona Electric", 33000, 45000>>,
     <<"Kia", "EV6", 42000, 65000>>, <<"Kia", "EV9", 55000, 75000>>,
     <<"Kia", "Niro EV", 39000, 50000>>,
     <<"Ford", "Mustang Mach-E", 40000, 65000>>, <<"Ford", "F-150 Lightning", 50000, 95000>>,
     <<"Chevrolet", "Bolt", 25000, 35000>>, <<"Chevrolet", "Bolt EUV", 28000, 38000>>,
     <<"Chevrolet", "Blazer EV", 45000, 65000>>, <<"Chevrolet", "Equinox EV", 30000, 50000>>}

\* the warnings of _validate_price_for_model: the band is min * 0.6 .. max * 1.3
_validate_price_for_model(car) ==
    UNION { IF 10 * price(car) < 6 * r[3] THEN {"price_low_for_model"}
            ELSE IF 10 * price(car) > 13 * r[4] THEN {"price_high_for_model"}
            ELSE {} :
            r \in {q \in price_ranges : car.make = <<q[1]>> /\ car.model = <<q[2]>>} }

\* the warnings validate_listing collects
validation_warnings_NoPrice(car, strict) ==
      (IF Truthy(car.vin)
       THEN (IF ~_is_valid_vin(car.vin) THEN {"vin_format"} ELSE {})
       ELSE (IF strict THEN {"vin_missing"} ELSE {}))
 \cup (IF car.mileage # NoneNum /\ car.new_used = <<"new">> /\ car.mileage[1] > 500
       THEN {"mileage_new"} ELSE {})
 \cup (IF car.new_used \notin Conditions THEN {"condition"} ELSE {})
 \cup (IF price(car) > 0 THEN _validate_price_for_model(car) ELSE {})

validation_warnings(car, strict) ==
      (IF price(car) <= 0 /\ ~strict THEN {"price_missing"} ELSE {})
 \cup validation_warnings_NoPrice(car, strict)

\* validate_listing(car, strict): is_valid and all_issues, an error as
\* <<error>>, a warning as <<"WARNING: ", warning>>; the issues as a set
validate_listing(car, strict) ==
    [is_valid |-> validation_errors(car, strict) = {},
     issues   |-> {<<e>> : e \in validation_errors(car, strict)}
                    \cup {<<"WARNING: ", w>> : w \in validation_warnings(car, strict)}]

-----------------------------------------------------------------------------
(* A direct caller of CheckpointManager: save(completed, records),          *)
(* a crash, a fresh manager's load(), clear()                                *)

CkFirst ==
    CarListing(<<"A">>, <<"http", "a">>, <<"V">>, 2027, <<"Tesla">>, <<"Model 3">>,
               Some(40000), NoneNum, NoneNum, <<"electric">>, NoneNum, <<1, 5>>)

CkSecond ==
    CarListing(<<"B">>, <<"http", "b">>, NoneStr, 1900, <<"Toyota">>, <<"Camry">>,
               NoneNum, Some(3000), Some(0), <<"gasoline">>, Some(0), NoneDt)

\* the lists of listings handed to save() by a direct caller
CkLists == {<< >>, <<CkFirst>>, <<CkFirst, CkSecond>>, <<CkSecond, CkFirst>>}

HistInit ==
    [sv_phase |-> "none", sv_old |-> NoFile,
     persisted |-> NothingPersisted, saved_after |-> {},
     fresh_load |-> FALSE, interrupted |-> FALSE,
     resumed |-> {}, saved_prior |-> {}, processed |-> << >>, threw |-> {},
     done_ids |-> {}, done_prior |-> {}, reports |-> 0, exit_code |-> "running",
     log |-> << >>, plog |-> << >>, foreign |-> FALSE]

\* no pure function has been called
PureParked ==
    /\ fn = "none"
    /\ arg = << >>
    /\ retval = << >>

\* no writer is in use
WriterParked ==
    /\ out_text = << >>
    /\ appended = << >>
    /\ w_pc = "off"
    /\ w_count = << >>

DedupParked ==
    /\ cars = << >>
    /\ prefer_latest = FALSE
    /\ seen_by_vin = EmptyMap
    /\ seen_by_url = EmptyMap
    /\ deduplicated = << >>
    /\ stats = ZeroStats
    /\ dd_pc = "off"

MemoryInit ==
    /\ completed_dealerships = {}
    /\ scraped_listings = << >>
    /\ start_time = NoneDt
    /\ last_update = NoneDt
    /\ load_result = "none"
    /\ aliased = FALSE
    /\ all_listings = << >>
    /\ completed_local = {}
    /\ remaining = << >>
    /\ idx = 0
    /\ listings = << >>
    /\ ret = "none"

\* a checkpoint file whose second record no CarListing accepts
BadRecordFile ==
    JsonFile([completed_dealerships |-> <<<<"A">>>>,
              scraped_listings |->
                 <<listing_dict(
                     CarListing(<<"A">>, <<"http", "a">>, NoneStr, 2024, <<"Tesla">>,
                                <<"Model 3">>, Some(40000), NoneNum, NoneNum,
                                <<"electric">>, NoneNum, <<1, 0>>)),
                   listing_dict(
                     CarListing(<<"A">>, <<"http", "b">>, NoneStr, 1800, <<"Tesla">>,
                                <<"Model 3">>, Some(40000), NoneNum, NoneNum,
                                <<"electric">>, NoneNum, <<1, 0>>))>>,
              start_time |-> <<"T", 1>>, last_update |-> <<"T", 1>>, version |-> "1.0"])

\* a checkpoint file whose last_update is no ISO-8601 string
BadStampFile ==
    JsonFile([completed_dealerships |-> <<<<"B">>>>,
              scraped_listings |-> << >>,
              start_time |-> <<"T", 1>>, last_update |-> <<"yesterday">>,
              version |-> "1.0"])

\* what may lie at the checkpoint path when the first process starts
InitFiles == {NoFile, GarbageFile, BadRecordFile, BadStampFile}

CkInit ==
    /\ DedupParked
    /\ PureParked
    /\ WriterParked
    /\ MemoryInit
    /\ fs \in {[p \in Paths |-> IF p = checkpoint_file THEN f ELSE NoFile] : f \in InitFiles}
    /\ pc = "dead"
    /\ now = <<1, 0>>
    /\ catalog = << >>
    /\ runs = 0
    /\ output = << >>
    /\ hist = HistInit

\* a caller invokes save(completed, records)
CallSave(completed, records) ==
    /\ pc = "idle"
    /\ now[1] <= MaxSaves
    /\ completed_local' = completed
    /\ all_listings' = records
    /\ ret' = "api"
    /\ pc' = "save_begin"
    /\ hist' = [hist EXCEPT !.fresh_load = FALSE]
    /\ UNCHANGED <<dedupVars, pureVars, writerVars, fs, managerVars, remaining, idx, listings, now, catalog, runs,
                   output>>

\* the process dies: its memory is lost, the files stay as they are
Crash ==
    /\ pc \notin {"dead", "off", "done"}
    /\ NoProcess
    /\ pc' = "dead"
    /\ hist' = [hist EXCEPT !.fresh_load = FALSE, !.interrupted = TRUE, !.log = << >>]
    /\ UNCHANGED <<dedupVars, pureVars, writerVars, fs, now, catalog, runs, output>>

\* CheckpointManager(path).load() on a new manager object
FreshLoad ==
    /\ pc \in {"dead", "idle"}
    /\ NewManagerLoad
    /\ pc' = "idle"
    /\ hist' = [hist EXCEPT !.fresh_load = TRUE]
    /\ UNCHANGED <<dedupVars, pureVars, writerVars, fs, callerVars, ret, now, catalog, runs, output>>

\* clear()
Clear ==
    /\ pc = "idle"
    /\ fs' = [fs EXCEPT ![checkpoint_file] = NoFile]
    /\ completed_dealerships' = {}
    /\ scraped_listings' = << >>
    /\ start_time' = NoneDt
    /\ last_update' = NoneDt
    /\ aliased' = FALSE
    /\ hist' = [hist EXCEPT !.persisted = NothingPersisted, !.fresh_load = FALSE,
                            !.sv_phase = "none"]
    /\ UNCHANGED <<dedupVars, pureVars, writerVars, load_result, callerVars, pc, ret, now, catalog, runs, output>>

SaveSteps == SaveBegin \/ SaveOpenTemp \/ SaveWrite \/ SaveReplace \/ SaveFail

CkNext ==
    \/ \E c \in {{}, {<<"A">>}, {<<"A">>, <<"B">>}}, l \in CkLists : CallSave(c, l)
    \/ SaveSteps
    \/ Crash
    \/ FreshLoad
    \/ Clear

SpecCk == CkInit /\ [][CkNext]_vars

-----------------------------------------------------------------------------
(* A run: StreamingOutputWriter(append=False), MultiDealershipScraper(),    *)
(* scrape_all(output_writer)                                                 *)

\* DealershipInfo(id, name, ...)
DealershipInfo(id, name) == [id |-> id, name |-> name]

\* what load_dealerships_from_csv may return: rows with different names, and
\* rows with different ids under one name
Catalogs ==
    {<<DealershipInfo(1, <<"A">>), DealershipInfo(2, <<"B">>)>>,
     <<DealershipInfo(1, <<"A">>), DealershipInfo(2, <<"A">>)>>}

\* a listing the validator accepts
GoodListing(name, at) ==
    CarListing(name, <<"http", name[1]>>, NoneStr, 2024, <<"Tesla">>, <<"Model 3">>,
               Some(40000), NoneNum, NoneNum, <<"electric">>, NoneNum, at)

\* a listing the validator rejects: not an electric vehicle, price under 5000
BadListing(name, at) ==
    CarListing(name, <<"http", name[1], "x">>, NoneStr, 2024, <<"Toyota">>, <<"Camry">>,
               Some(3000), NoneNum, NoneNum, <<"gasoline">>, NoneNum, at)

\* what GenericDealershipScraper(dealer_info).scrape() may return
ScrapeResults(name, at) ==
    {<< >>, <<GoodListing(name, at)>>, <<BadListing(name, at)>>,
     <<GoodListing(name, at), BadListing(name, at)>>}

RunInit ==
    /\ DedupParked
    /\ PureParked
    /\ WriterParked
    /\ MemoryInit
    /\ fs \in {[p \in Paths |-> IF p = checkpoint_file THEN f ELSE NoFile] : f \in InitFiles}
    /\ pc = "dead"
    /\ now = <<1, 0>>
    /\ catalog \in Catalogs
    /\ runs = 0
    /\ output = << >>
    /\ hist = HistInit

\* StreamingOutputWriter.__init__ with append=False starts the output file
\* anew; MultiDealershipScraper.__init__ builds a manager and calls load()
Construct ==
    /\ pc = "dead"
    /\ runs < MaxRuns
    /\ runs' = runs + 1
    /\ output' = << >>
    /\ NewManagerLoad
    /\ pc' = "constructed"
    /\ hist' = [hist EXCEPT !.fresh_load = TRUE,
                            !.resumed = completed_dealerships',
                            !.saved_prior = hist.saved_after,
                            !.done_prior = hist.done_ids,
                            !.processed = << >>,
                            !.foreign = @ \/ (fs[checkpoint_file].kind = "json"
                                              /\ ~hist.persisted.valid),
                            !.log = IF load_result' = "true" THEN hist.plog ELSE << >>]
    /\ UNCHANGED <<dedupVars, pureVars, writerVars, fs, callerVars, ret, now, catalog>>

\* a list that keeps every dealer
remaining_dealerships_All(dealerships, completed) == dealerships

\* "[dealer for dealer in self.dealerships if dealer.name not in completed_dealerships]"
remaining_dealerships(dealerships, completed) ==
    SelectSeq(dealerships, LAMBDA dealer : dealer.name \notin completed)

\* a scrape_all that starts from an empty list
get_listings_Empty == << >>

\* "return self.scraped_listings.copy()"
get_listings == scraped_listings

\* scrape_all, up to the loop
ScrapeAllStart ==
    /\ pc = "constructed"
    /\ all_listings' = get_listings
    /\ completed_local' = completed_dealerships
    /\ remaining' = remaining_dealerships(catalog, completed_dealerships)
    /\ IF remaining' = << >>
       THEN idx' = 0 /\ pc' = "done"
       ELSE idx' = 1 /\ pc' = "loop"
    /\ hist' = [hist EXCEPT !.fresh_load = FALSE]
    /\ UNCHANGED <<dedupVars, pureVars, writerVars, fs, managerVars, listings, ret, now, catalog, runs, output>>

\* the try block of one iteration, up to the call of save()
SourceScraped ==
    /\ pc = "loop"
    /\ \E result \in ScrapeResults(remaining[idx].name, now) :
          /\ listings' = result
          /\ all_listings' = all_listings \o result
          /\ output' = IF result # << >> THEN output \o result ELSE output
    /\ completed_local' = completed_local \cup {remaining[idx].name}
    /\ scraped_listings' = IF aliased THEN all_listings' ELSE scraped_listings
    /\ completed_dealerships' = IF aliased THEN completed_local' ELSE completed_dealerships
    /\ ret' = "loop"
    /\ pc' = "save_begin"
    /\ hist' = [hist EXCEPT !.processed = Append(@, remaining[idx].name),
                            !.done_ids = @ \cup {remaining[idx].id},
                            !.log = Append(@, [id |-> remaining[idx].id,
                                               name |-> remaining[idx].name,
                                               records |-> listings'])]
    /\ UNCHANGED <<dedupVars, pureVars, writerVars, fs, start_time, last_update, load_result, aliased, remaining,
                   idx, now, catalog, runs>>

\* the scraper raised: the except block, up to the call of save()
SourceFailed ==
    /\ pc = "loop"
    /\ completed_local' = completed_local \cup {remaining[idx].name}
    /\ completed_dealerships' = IF aliased THEN completed_local' ELSE completed_dealerships
    /\ ret' = "loop"
    /\ pc' = "save_begin"
    /\ hist' = [hist EXCEPT !.processed = Append(@, remaining[idx].name),
                            !.done_ids = @ \cup {remaining[idx].id},
                            !.threw = @ \cup {remaining[idx].name},
                            !.log = Append(@, [id |-> remaining[idx].id,
                                               name |-> remaining[idx].name,
                                               records |-> << >>])]
    /\ UNCHANGED <<dedupVars, pureVars, writerVars, fs, scraped_listings, start_time, last_update, load_result,
                   aliased, all_listings, remaining, idx, listings, now,
                   catalog, runs, output>>

\* "Final checkpoint save"
FinalSave ==
    /\ pc = "final"
    /\ ret' = "final"
    /\ pc' = "save_begin"
    /\ UNCHANGED <<dedupVars, pureVars, writerVars, fs, managerVars, all_listings, completed_local, remaining, idx,
                   listings, now, catalog, runs, output, hist>>

\* scrape_all has returned and the process ends
Exit ==
    /\ pc = "done"
    /\ NoProcess
    /\ pc' = "dead"
    /\ hist' = [hist EXCEPT !.fresh_load = FALSE, !.interrupted = FALSE, !.log = << >>]
    /\ UNCHANGED <<dedupVars, pureVars, writerVars, fs, now, catalog, runs, output>>

RunNext ==
    \/ Construct
    \/ ScrapeAllStart
    \/ SourceScraped
    \/ SourceFailed
    \/ SaveSteps
    \/ FinalSave
    \/ Exit
    \/ Crash

SpecRun == RunInit /\ [][RunNext]_vars

\* the variables of the checkpoint model while deduplicate_listings runs
RunParked ==
    /\ MemoryInit
    /\ fs = [p \in Paths |-> NoFile]
    /\ pc = "off"
    /\ now = <<1, 0>>
    /\ catalog = << >>
    /\ runs = 0
    /\ output = << >>
    /\ hist = HistInit

DedupInit ==
    /\ cars = << >>
    /\ prefer_latest \in BOOLEAN
    /\ seen_by_vin = EmptyMap
    /\ seen_by_url = EmptyMap
    /\ deduplicated = << >>
    /\ stats = ZeroStats
    /\ dd_pc = "loop"
    /\ RunParked
    /\ PureParked
    /\ WriterParked

SpecDedup == DedupInit /\ [][DedupNext]_vars

-----------------------------------------------------------------------------
(* cli.main, from the choice of the scrapers to the end of the run          *)

\* the variables main() does not touch
cliUnused ==
    <<dedupVars, pureVars, writerVars, fs, managerVars, completed_local, remaining, ret, now, runs>>

\* config.sites, when every name is registered; a name may be given twice
CliSites == {<<<<"A">>>>, <<<<"A">>, <<"B">>>>, <<<<"A">>, <<"B">>, <<"A">>>>}

\* the sub-lists of a list: what a filter may keep
RECURSIVE SubLists(_)
SubLists(list) ==
    IF list = << >> THEN {<< >>}
    ELSE LET rest == SubLists(Tail(list))
         IN  rest \cup {<<Head(list)>> \o r : r \in rest}

\* sys.exit(code), or the return of main()
CliExit(code) ==
    /\ pc' = "cli_exited"
    /\ hist' = [hist EXCEPT !.exit_code = code]

CliInit ==
    /\ DedupParked
    /\ PureParked
    /\ WriterParked
    /\ MemoryInit
    /\ fs = [p \in Paths |-> NoFile]
    /\ pc = "cli_main"
    /\ now = <<1, 0>>
    /\ catalog = << >>
    /\ runs = 0
    /\ output = << >>
    /\ hist = HistInit

\* "--all-sites", no sites given, or no registered scraper
CliUseGeneric ==
    /\ pc = "cli_main"
    /\ pc' = "cli_generic"
    /\ UNCHANGED <<cliUnused, all_listings, idx, listings, catalog, output, hist>>

\* config.sites names registered scrapers only
CliUseSites ==
    /\ pc = "cli_main"
    /\ \E sites \in CliSites : catalog' = sites
    /\ idx' = 1
    /\ pc' = "cli_sites"
    /\ UNCHANGED <<cliUnused, all_listings, listings, output, hist>>

\* config.sites names a scraper that is not registered
CliUnknownSites ==
    /\ pc = "cli_main"
    /\ CliExit("1")
    /\ UNCHANGED <<cliUnused, all_listings, idx, listings, catalog, output>>

\* dealerships.csv is found nowhere
CliCsvMissing ==
    /\ pc = "cli_generic"
    /\ CliExit("1")
    /\ UNCHANGED <<cliUnused, all_listings, idx, listings, catalog, output>>

\* the try block of the generic path: the writer starts the output file,
\* MultiDealershipScraper(..., use_selenium=, headless=) raises TypeError
\* because __init__ takes no such arguments, and the except block exits
CliGenericScraper ==
    /\ pc = "cli_generic"
    /\ output' = << >>
    /\ CliExit("1")
    /\ UNCHANGED <<cliUnused, all_listings, idx, listings, catalog>>

\* one iteration of "for site_name in sites_to_scrape" that scraped
CliSiteScraped ==
    /\ pc = "cli_sites"
    /\ \E cars_found \in ScrapeResults(catalog[idx], now) :
          all_listings' = all_listings \o cars_found
    /\ idx' = idx + 1
    /\ pc' = IF idx + 1 <= Len(catalog) THEN "cli_sites" ELSE "cli_collected"
    /\ UNCHANGED <<cliUnused, listings, catalog, output, hist>>

\* one iteration whose scraper raised
CliSiteFailed ==
    /\ pc = "cli_sites"
    /\ idx' = idx + 1
    /\ pc' = IF idx + 1 <= Len(catalog) THEN "cli_sites" ELSE "cli_collected"
    /\ UNCHANGED <<cliUnused, all_listings, listings, catalog, output, hist>>

\* "if not all_cars: ... sys.exit(0)"
CliNoCars ==
    /\ pc = "cli_collected"
    /\ all_listings = << >>
    /\ CliExit("0")
    /\ UNCHANGED <<cliUnused, all_listings, idx, listings, catalog, output>>

\* the validation loop, print_report(), and the exit when nothing is valid
CliValidate ==
    /\ pc = "cli_collected"
    /\ all_listings # << >>
    /\ LET validated_cars == SelectSeq(all_listings, LAMBDA car : is_valid(car, FALSE))
       IN  /\ all_listings' = validated_cars
           /\ pc' = IF validated_cars = << >> THEN "cli_exited" ELSE "cli_validated"
           /\ hist' = [hist EXCEPT !.reports = @ + 1,
                                   !.exit_code = IF validated_cars = << >> THEN "0" ELSE @]
    /\ UNCHANGED <<cliUnused, idx, listings, catalog, output>>

\* deduplication, filter_cars under the configured criteria, save_to_file
\* when a car is left, and the end of main()
CliFinish ==
    /\ pc = "cli_validated"
    /\ LET unique == deduplicate_listings(all_listings, TRUE)
       IN  /\ all_listings' = unique
           /\ \E filtered_cars \in SubLists(unique) :
                 /\ listings' = filtered_cars
                 /\ output' = IF filtered_cars # << >> THEN filtered_cars ELSE output
    /\ CliExit("end")
    /\ UNCHANGED <<cliUnused, idx, catalog>>

CliNext ==
    \/ CliUseGeneric
    \/ CliUseSites
    \/ CliUnknownSites
    \/ CliCsvMissing
    \/ CliGenericScraper
    \/ CliSiteScraped
    \/ CliSiteFailed
    \/ CliNoCars
    \/ CliValidate
    \/ CliFinish

SpecCli == CliInit /\ [][CliNext]_vars

-----------------------------------------------------------------------------
(* Text as characters: regular expressions, numbers and their spelling *)

Digits == <<"0", "1", "2", "3", "4", "5", "6", "7", "8", "9">>

IsDigit(t, i) == i >= 1 /\ i <= Len(t) /\ \E d \in 1..10 : Digits[d] = t[i]

DigitValue(c) == (CHOOSE d \in 1..10 : Digits[d] = c) - 1

\* int(ds) of a string of digits
RECURSIVE IntOf(_)
IntOf(ds) ==
    IF ds = << >> THEN 0
    ELSE 10 * IntOf(SubSeq(ds, 1, Len(ds) - 1)) + DigitValue(ds[Len(ds)])

\* str(n) of an int n >= 0
RECURSIVE StrOf(_)
StrOf(n) == IF n < 10 THEN <<Digits[n + 1]>> ELSE StrOf(n \div 10) \o <<Digits[(n % 10) + 1]>>

\* kw in text
Contains(text, kw) ==
    \E i \in 1..(Len(text) - Len(kw) + 1) : SubSeq(text, i, i + Len(kw) - 1) = kw

\* text[i:] starts with lit
StartsAt(text, i, lit) == i + Len(lit) - 1 <= Len(text) /\ SubSeq(text, i, i + Len(lit) - 1) = lit

\* str.replace(c, "")
Without(text, c) == SelectSeq(text, LAMBDA x : x # c)

\* "".join(texts)
RECURSIVE Join(_)
Join(texts) == IF texts = << >> THEN << >> ELSE Head(texts) \o Join(Tail(texts))

\* the index after the longest run of digits from i
RECURSIVE DigitsEnd(_, _)
DigitsEnd(t, i) == IF IsDigit(t, i) THEN DigitsEnd(t, i + 1) ELSE i

\* \s* from i: the index after the blanks
RECURSIVE SpacesEnd(_, _)
SpacesEnd(t, i) == IF i <= Len(t) /\ IsSpace(t[i]) THEN SpacesEnd(t, i + 1) ELSE i

\* (?:,[0-9]{3})* from i: the index after the groups
RECURSIVE GroupsEnd(_, _)
GroupsEnd(t, i) ==
    IF i <= Len(t) /\ t[i] = "," /\ IsDigit(t, i + 1) /\ IsDigit(t, i + 2) /\ IsDigit(t, i + 3)
    THEN GroupsEnd(t, i + 4)
    ELSE i

\* [0-9]{1,3}(?:,[0-9]{3})+ from i: the index after the match, 0 without one
GroupedEnd(t, i) ==
    LET fits(n) == (\A k \in 0..(n - 1) : IsDigit(t, i + k)) /\ GroupsEnd(t, i + n) > i + n
    IN  IF fits(3) THEN GroupsEnd(t, i + 3)
        ELSE IF fits(2) THEN GroupsEnd(t, i + 2)
        ELSE IF fits(1) THEN GroupsEnd(t, i + 1)
        ELSE 0

\* [0-9]+(?:\.[0-9]{2})? from i: the index after the match, 0 without one
PlainEnd(t, i) ==
    IF ~IsDigit(t, i) THEN 0
    ELSE LET e == DigitsEnd(t, i)
         IN  IF e <= Len(t) /\ t[e] = "." /\ IsDigit(t, e + 1) /\ IsDigit(t, e + 2)
             THEN e + 3 ELSE e

\* PRICE_REGEX at i: <<first index of the group, index after the match>>,
\* << >> without a match
PRICE_REGEX(t, i) ==
    IF t[i] # "$" THEN << >>
    ELSE LET j == SpacesEnd(t, i + 1)
         IN  IF GroupedEnd(t, j) # 0 THEN <<j, GroupedEnd(t, j)>>
             ELSE IF PlainEnd(t, j) # 0 THEN <<j, PlainEnd(t, j)>>
             ELSE << >>

\* PRICE_REGEX.findall(t[i:]): the groups of the matches, left to right
RECURSIVE FindAllPrices(_, _)
FindAllPrices(t, i) ==
    LET starts == {k \in i..Len(t) : PRICE_REGEX(t, k) # << >>}
    IN  IF starts = {} THEN << >>
        ELSE LET m == PRICE_REGEX(t, CHOOSE k \in starts : \A o \in starts : k <= o)
             IN  <<SubSeq(t, m[1], m[2] - 1)>> \o FindAllPrices(t, m[2])

\* the part of a number's spelling before the decimal point
IntegerPart(s) ==
    IF \E i \in 1..Len(s) : s[i] = "."
    THEN SubSeq(s, 1, (CHOOSE i \in 1..Len(s) : s[i] = "." /\ \A k \in 1..(i - 1) : s[k] # ".") - 1)
    ELSE s

\* the part after the decimal point, trailing zeros dropped
RECURSIVE DropZeros(_)
DropZeros(ds) ==
    IF ds # << >> /\ ds[Len(ds)] = "0" THEN DropZeros(SubSeq(ds, 1, Len(ds) - 1)) ELSE ds

Fraction(s) ==
    IF IntegerPart(s) = s THEN << >> ELSE DropZeros(SubSeq(s, Len(IntegerPart(s)) + 2, Len(s)))

\* float(s) succeeds: digits with at most one point, a digit among them
IsFloatText(s) ==
    /\ \A i \in 1..Len(s) : IsDigit(s, i) \/ s[i] = "."
    /\ \E i \in 1..Len(s) : IsDigit(s, i)
    /\ Len(SelectSeq(s, LAMBDA x : x = ".")) <= 1

\* a number: an int as [n, frac << >>, float FALSE]; a float carries the
\* digits after its point
IntNum(n) == [n |-> n, frac |-> << >>, float |-> FALSE]
FloatNum(s) == [n |-> IntOf(IntegerPart(s)), frac |-> Fraction(s), float |-> TRUE]

\* str(x) of a number
str(x) ==
    IF x.float THEN StrOf(x.n) \o <<".">> \o (IF x.frac = << >> THEN <<"0">> ELSE x.frac)
    ELSE StrOf(x.n)

\* x > 0
Positive(x) == x.n > 0 \/ x.frac # << >>

\* a < b for numbers; fractions are compared by their first two digits
Cents(x) ==
    100 * x.n + (IF Len(x.frac) >= 1 THEN 10 * DigitValue(x.frac[1]) ELSE 0)
              + (IF Len(x.frac) >= 2 THEN DigitValue(x.frac[2]) ELSE 0)

\* parse_price_to_int (car_regexes.py): NoneNum or Some(int)
parse_price_to_int(price_str) ==
    IF price_str = << >> THEN NoneNum
    ELSE LET s == Without(Strip(price_str), ",")
         IN  IF IsFloatText(s) THEN Some(IntOf(IntegerPart(s))) ELSE NoneNum

-----------------------------------------------------------------------------
(* DealershipScraper._extract_price_from_page *)

\* FIELD_KEYWORDS["price"], lower-cased
PriceFieldKeywords ==
    {<<"m", "s", "r", "p">>,
     <<"i", "n", "t", "e", "r", "n", "e", "t", " ", "p", "r", "i", "c", "e">>,
     <<"s", "a", "l", "e", " ", "p", "r", "i", "c", "e">>,
     <<"o", "u", "r", " ", "p", "r", "i", "c", "e">>,
     <<"d", "e", "a", "l", "e", "r", " ", "p", "r", "i", "c", "e">>,
     <<"n", "o", " ", "b", "u", "l", "l", " ", "p", "r", "i", "c", "e">>,
     <<"o", "n", "e", " ", "p", "r", "i", "c", "e">>,
     <<"e", "-", "p", "r", "i", "c", "e">>,
     <<"r", "e", "q", "u", "e", "s", "t", " ", "e", "p", "r", "i", "c", "e">>,
     <<"$">>}

MsrpWords ==
    {<<"m", "s", "r", "p">>,
     <<"m", "a", "n", "u", "f", "a", "c", "t", "u", "r", "e", "r">>,
     <<"s", "t", "i", "c", "k", "e", "r">>,
     <<"r", "e", "t", "a", "i", "l">>}

SaleWords ==
    {<<"s", "a", "l", "e">>,
     <<"o", "u", "r", " ", "p", "r", "i", "c", "e">>,
     <<"i", "n", "t", "e", "r", "n", "e", "t">>,
     <<"e", "-", "p", "r", "i", "c", "e">>,
     <<"d", "e", "a", "l", "e", "r", " ", "p", "r", "i", "c", "e">>,
     <<"s", "p", "e", "c", "i", "a", "l">>}

TotalWords ==
    {<<"t", "o", "t", "a", "l">>,
     <<"f", "i", "n", "a", "l">>,
     <<"o", "u", "t", " ", "t", "h", "e", " ", "d", "o", "o", "r">>,
     <<"o", "t", "d">>}

\* contains_keyword(text, "price")
contains_keyword(text) ==
    text # << >> /\ \E k \in PriceFieldKeywords : Contains(Lower(text), k)

\* DealershipScraper._extract_price: the float in the text, 0.0 when there is none
_extract_price(price_text) ==
    LET kept == SelectSeq(price_text, LAMBDA c : (\E d \in 1..10 : Digits[d] = c) \/ c = ".")
    IN  IF IsFloatText(kept) THEN FloatNum(kept) ELSE FloatNum(<<"0">>)

\* a page is the sequence of its text nodes, each in an element of its own
\* under the root; html.get_text()
get_text(page) == Join(page)

\* element.get_text(strip=True) of the root and of every node's element, in
\* document order
ElementTexts(page) ==
    <<Join([i \in 1..Len(page) |-> Strip(page[i])])>> \o [i \in 1..Len(page) |-> Strip(page[i])]

\* _find_field_by_keywords(html, "price"): the texts of the matching elements
_find_field_by_keywords(page) == SelectSeq(ElementTexts(page), contains_keyword)

\* all_prices: the amounts of the pattern matches, then those of the elements
AllPrices(page) ==
    LET found == FindAllPrices(get_text(page), 1)
        parsed == [i \in 1..Len(found) |-> parse_price_to_int(found[i])]
        kept == SelectSeq(parsed, LAMBDA v : v # NoneNum /\ v[1] > 0)
        elems == _find_field_by_keywords(page)
        values == [i \in 1..Len(elems) |-> _extract_price(elems[i])]
    IN  [i \in 1..Len(kept) |-> IntNum(kept[i][1])] \o SelectSeq(values, Positive)

\* re.compile(rf'\$\s*{re.escape(str(price_value))}') at i: the index after the
\* match, 0 without one
PricePatternEnd(t, i, price_value) ==
    IF t[i] # "$" THEN 0
    ELSE LET j == SpacesEnd(t, i + 1)
         IN  IF StartsAt(t, j, str(price_value)) THEN j + Len(str(price_value)) ELSE 0

\* price_pattern.finditer(t[i:]): <<match.start(), match.end()>> of every match
RECURSIVE FindIter(_, _, _)
FindIter(t, i, price_value) ==
    LET starts == {k \in i..Len(t) : PricePatternEnd(t, k, price_value) # 0}
    IN  IF starts = {} THEN << >>
        ELSE LET k == CHOOSE k \in starts : \A o \in starts : k <= o
                 e == PricePatternEnd(t, k, price_value)
             IN  <<<<k - 1, e - 1>>>> \o FindIter(t, e, price_value)

ContextWidth == 50

\* page_text[start:end].lower() around a match
Context(t, match) ==
    LET start == IF match[1] - ContextWidth > 0 THEN match[1] - ContextWidth ELSE 0
        end == IF match[2] + ContextWidth < Len(t) THEN match[2] + ContextWidth ELSE Len(t)
    IN  Lower(SubSeq(t, start + 1, end))

AnyIn(words, context) == \E k \in words : Contains(context, k)

\* the body of the inner loop: one match of one amount
Classify(prices, price_value, context) ==
    IF AnyIn(MsrpWords, context)
    THEN IF prices.msrp = << >> \/ Cents(price_value) > Cents(prices.msrp[1])
         THEN [prices EXCEPT !.msrp = <<price_value>>] ELSE prices
    ELSE IF AnyIn(SaleWords, context)
    THEN IF prices.sale_price = << >> \/ Cents(price_value) < Cents(prices.sale_price[1])
         THEN [prices EXCEPT !.sale_price = <<price_value>>] ELSE prices
    ELSE IF AnyIn(TotalWords, context)
    THEN [prices EXCEPT !.total_price = <<price_value>>]
    ELSE IF prices.sale_price = << >>
         THEN [prices EXCEPT !.sale_price = <<price_value>>] ELSE prices

\* the inner loop over the matches of one amount
RECURSIVE ClassifyMatches(_, _, _, _)
ClassifyMatches(prices, price_value, t, matches) ==
    IF matches = << >> THEN prices
    ELSE ClassifyMatches(Classify(prices, price_value, Context(t, Head(matches))),
                         price_value, t, Tail(matches))

\* the outer loop over all_prices
RECURSIVE ClassifyAll(_, _, _)
ClassifyAll(prices, t, all_prices) ==
    IF all_prices = << >> THEN prices
    ELSE ClassifyAll(ClassifyMatches(prices, Head(all_prices), t,
                                     FindIter(t, 1, Head(all_prices))),
                     t, Tail(all_prices))

\* the amount of an entry of prices as an Optional number
Dollars(entry) == IF entry = << >> THEN NoneNum ELSE Some(entry[1].n)

_extract_price_from_page(page) ==
    LET none == [msrp |-> << >>, sale_price |-> << >>, total_price |-> << >>]
        prices == ClassifyAll(none, get_text(page), AllPrices(page))
        total == IF prices.total_price = << >> /\ prices.sale_price # << >>
                    /\ Positive(prices.sale_price[1])
                 THEN prices.sale_price ELSE prices.total_price
    IN  [msrp |-> Dollars(prices.msrp), sale_price |-> Dollars(prices.sale_price),
         total_price |-> Dollars(total)]

-----------------------------------------------------------------------------
(* parse_detail_page.  The heading of a page and the texts of its other     *)
(* elements are sequences of words; a str made of them is the sequence of    *)
(* its words.                                                                *)

\* the makes _parse_vehicle_title knows, in its order
TitleMakes ==
    <<<<"Tesla">>, <<"Hyundai">>, <<"Kia">>, <<"Ford">>, <<"Chevrolet">>, <<"Chevy">>,
     <<"Nissan">>, <<"BMW">>, <<"Mercedes-Benz">>, <<"Mercedes">>, <<"Audi">>, <<"Volkswagen">>,
     <<"VW">>, <<"Toyota">>, <<"Honda">>, <<"Mazda">>, <<"Subaru">>, <<"Volvo">>,
     <<"Polestar">>, <<"Rivian">>, <<"Lucid">>, <<"Fisker">>, <<"Genesis">>, <<"Cadillac">>,
     <<"Lincoln">>, <<"Jeep">>, <<"Ram">>, <<"GMC">>, <<"Buick">>, <<"Chrysler">>, <<"Dodge">>,
     <<"INFINITI">>, <<"Acura">>, <<"Lexus">>, <<"Jaguar">>, <<"Land", "Rover">>, <<"MINI">>,
     <<"Mitsubishi">>, <<"Porsche">>, <<"Alfa", "Romeo">>, <<"Fiat">>, <<"Maserati">>>>

\* the makes of make_model_pattern, in its order
PatternMakes ==
    <<<<"Tesla">>, <<"Hyundai">>, <<"Kia">>, <<"Ford">>, <<"Chevrolet">>, <<"Nissan">>,
     <<"BMW">>, <<"Mercedes">>, <<"Audi">>, <<"Toyota">>, <<"Honda">>, <<"Mazda">>,
     <<"Subaru">>, <<"Volvo">>, <<"Polestar">>, <<"Rivian">>, <<"Lucid">>, <<"Genesis">>,
     <<"Cadillac">>, <<"Lincoln">>, <<"Jeep">>, <<"Ram">>, <<"GMC">>, <<"Buick">>,
     <<"Chrysler">>, <<"Dodge">>, <<"INFINITI">>, <<"Acura">>, <<"Lexus">>, <<"Jaguar">>,
     <<"Land", "Rover">>, <<"MINI">>, <<"Mitsubishi">>, <<"Porsche">>>>

\* int(w) of a word \b(19|20)\d{2}\b matches, 0 for any other word
YearWord(w) ==
    CASE w = "1999" -> 1999
      [] w = "2025" -> 2025
      [] w = "2027" -> 2027
      [] w = "2028" -> 2028
      [] OTHER -> 0

\* the first index of a sequence whose element satisfies Test, 0 if none
FirstIndex(seq, Test(_)) ==
    IF \E i \in 1..Len(seq) : Test(seq[i])
    THEN CHOOSE i \in 1..Len(seq) : Test(seq[i]) /\ \A k \in 1..(i - 1) : ~Test(seq[k])
    ELSE 0

\* title.startswith(make), word by word
StartsWithWords(title, make) == Len(make) <= Len(title) /\ SubSeq(title, 1, Len(make)) = make

\* F applied to x, x evaluated once
With(x, F(_)) == CHOOSE r \in {F(v) : v \in {x}} : TRUE

\* the loops over words and makes: the make found and the words after it
MakeAndModel(words) ==
    LET matches(word, make) == <<word>> = make \/ StartsWithWords(words, make)
        i == FirstIndex(words, LAMBDA w : \E k \in 1..Len(TitleMakes) : matches(w, TitleMakes[k]))
    IN  With(i, LAMBDA at :
          IF at = 0 THEN [make |-> NoneStr, model |-> NoneStr]
          ELSE [make  |-> TitleMakes[FirstIndex(TitleMakes, LAMBDA mk : matches(words[at], mk))],
                model |-> IF at + 1 > Len(words) THEN NoneStr
                          ELSE SubSeq(words, at + 1, Len(words))])

\* DealershipScraper._parse_vehicle_title: year as an Optional number, make
\* and model as str or None
_parse_vehicle_title(title) ==
    With(FirstIndex(title, LAMBDA w : YearWord(w) # 0), LAMBDA y :
      With(MakeAndModel(IF y = 0 THEN title ELSE SelectSeq(title, LAMBDA w : w # title[y])),
           LAMBDA found :
             [year  |-> IF y = 0 THEN NoneNum ELSE Some(YearWord(title[y])),
              make  |-> found.make,
              model |-> found.model]))

\* the elements of a page in document order: the root, the heading, the others
PageElements(page) == <<page.title \o Join(page.body), page.title>> \o page.body

\* html.get_text()
PageText(page) == page.title \o Join(page.body)

\* contains_keyword(text, "name"): one of "New", "Used", "Certified" in it
NameKeywordIn(text) == \E i \in 1..Len(text) : text[i] \in {"New", "Used", "Certified"}

\* one turn of the loop over name_elements
FillFrom(found, parts) ==
    [year  |-> IF parts.year # NoneNum /\ found.year = NoneNum THEN parts.year ELSE found.year,
     make  |-> IF Truthy(parts.make) /\ ~Truthy(found.make) THEN parts.make ELSE found.make,
     model |-> IF Truthy(parts.model) /\ ~Truthy(found.model) THEN parts.model
               ELSE found.model]

RECURSIVE FillFromElements(_, _)
FillFromElements(found, texts) ==
    IF texts = << >> THEN found
    ELSE With(found, LAMBDA f :
           With(_parse_vehicle_title(Head(texts)), LAMBDA parts :
             FillFromElements(FillFrom(f, parts), Tail(texts))))

\* re.search(make_model_pattern, page_text): the make word and the word after
\* it, << >> without a match
make_model_pattern(text) ==
    LET isMake(w) == \E k \in 1..Len(PatternMakes) : PatternMakes[k] = <<w>>
        i == FirstIndex(SubSeq(text, 1, Len(text) - 1), isMake)
    IN  IF i = 0 THEN << >> ELSE <<<<text[i]>>, <<text[i + 1]>>>>

\* year, make and model as GenericDealershipScraper.parse_detail_page finds
\* them, before the final fallbacks
NamesGeneric(page) ==
    With(_parse_vehicle_title(page.title), LAMBDA title_parts :
      With(IF ~Truthy(title_parts.make) \/ ~Truthy(title_parts.model)
           THEN FillFromElements(title_parts, SelectSeq(PageElements(page), NameKeywordIn))
           ELSE title_parts,
           LAMBDA named :
             With(make_model_pattern(PageText(page)), LAMBDA match :
               IF (~Truthy(named.make) \/ ~Truthy(named.model)) /\ match # << >>
               THEN [named EXCEPT
                       !.make = IF ~Truthy(named.make) THEN match[1] ELSE named.make,
                       !.model = IF ~Truthy(named.model) THEN match[2] ELSE named.model]
               ELSE named)))

\* as SeleniumGenericDealershipScraper.parse_detail_page finds them
NamesSelenium(page) == _parse_vehicle_title(page.title)

\* CONDITION_REGEX, then _normalize_new_used; "new" without a match
Condition(page) ==
    LET i == FirstIndex(PageText(page),
                        LAMBDA w : w \in {"New", "Used", "Pre-Owned", "Certified Pre-Owned", "CPO"})
    IN  IF i = 0 THEN <<"new">>
        ELSE IF PageText(page)[i] \in {"Certified Pre-Owned", "CPO"} THEN <<"cpo">>
        ELSE IF PageText(page)[i] \in {"Used", "Pre-Owned"} THEN <<"used">>
        ELSE <<"new">>

\* MILEAGE_REGEX and parse_price_to_int: the number before "mi" or "miles"
Mileage(page) ==
    LET t == PageText(page)
        number(w) == CASE w = "12" -> Some(12) [] w = "600" -> Some(600) [] OTHER -> NoneNum
        hits == {i \in 1..(Len(t) - 1) : number(t[i]) # NoneNum /\ t[i + 1] \in {"mi", "miles"}}
    IN  IF hits = {} THEN NoneNum ELSE number(t[CHOOSE i \in hits : \A o \in hits : i <= o])

NoRecord == << >>

\* CarListing(...) inside the try: the record, or NoRecord when
\* __post_init__ raises and the except clause returns None
Constructed(page, year, make, model) ==
    With([CarListing(<<"A">>, <<"http", "A", "v">>, NoneStr, year, make, model,
                     NoneNum, NoneNum, NoneNum, NoneStr, Mileage(page), <<1, 0>>)
            EXCEPT !.new_used = Condition(page)],
         LAMBDA car : IF PostInitOk(car) THEN <<car>> ELSE NoRecord)

\* the year of the final fallbacks
YearOrNow(found) == IF found.year = NoneNum \/ found.year[1] = 0 THEN CurrentYear ELSE found.year[1]

OrUnknown(text) == IF Truthy(text) THEN text ELSE <<"Unknown">>

\* GenericDealershipScraper.parse_detail_page
parse_detail_page(page) ==
    With(NamesGeneric(page), LAMBDA found :
      IF OrUnknown(found.make) = <<"Unknown">> /\ OrUnknown(found.model) = <<"Unknown">>
      THEN NoRecord
      ELSE Constructed(page, YearOrNow(found), OrUnknown(found.make), OrUnknown(found.model)))

\* SeleniumGenericDealershipScraper.parse_detail_page
selenium_parse_detail_page(page) ==
    With(NamesSelenium(page), LAMBDA found :
      Constructed(page, YearOrNow(found), OrUnknown(found.make), OrUnknown(found.model)))

-----------------------------------------------------------------------------
(* normalize_drivetrain (car_regexes.py) *)

\* a table without the entry of "4wd"
DRIVETRAIN_NORMALIZE_No4wd ==
    <<<<<<"a", "w", "d">>,
        <<"A", "W", "D">>>>,
      <<<<"a", "l", "l", " ", "w", "h", "e", "e", "l", " ", "d", "r", "i", "v", "e">>,
        <<"A", "W", "D">>>>,
      <<<<"a", "l", "l", "-", "w", "h", "e", "e", "l", " ", "d", "r", "i", "v", "e">>,
        <<"A", "W", "D">>>>,
      <<<<"x", "d", "r", "i", "v", "e">>,
        <<"A", "W", "D">>>>,
      <<<<"4", "m", "a", "t", "i", "c">>,
        <<"A", "W", "D">>>>,
      <<<<"4", "m", "o", "t", "i", "o", "n">>,
        <<"A", "W", "D">>>>,
      <<<<"q", "u", "a", "t", "t", "r", "o">>,
        <<"A", "W", "D">>>>,
      <<<<"f", "w", "d">>,
        <<"F", "W", "D">>>>,
      <<<<"f", "r", "o", "n", "t", " ", "w", "h", "e", "e", "l", " ", "d", "r", "i", "v", "e">>,
        <<"F", "W", "D">>>>,
      <<<<"f", "r", "o", "n", "t", "-", "w", "h", "e", "e", "l", " ", "d", "r", "i", "v", "e">>,
        <<"F", "W", "D">>>>,
      <<<<"r", "w", "d">>,
        <<"R", "W", "D">>>>,
      <<<<"r", "e", "a", "r", " ", "w", "h", "e", "e", "l", " ", "d", "r", "i", "v", "e">>,
        <<"R", "W", "D">>>>,
      <<<<"r", "e", "a", "r", "-", "w", "h", "e", "e", "l", " ", "d", "r", "i", "v", "e">>,
        <<"R", "W", "D">>>>,
      <<<<"4", "x", "4">>,
        <<"4", "W", "D">>>>,
      <<<<"f", "o", "u", "r", " ", "w", "h", "e", "e", "l", " ", "d", "r", "i", "v", "e">>,
        <<"4", "W", "D">>>>,
      <<<<"f", "o", "u", "r", "-", "w", "h", "e", "e", "l", " ", "d", "r", "i", "v", "e">>,
        <<"4", "W", "D">>>>>>

\* the dict, as its <<key, value>> pairs in insertion order
DRIVETRAIN_NORMALIZE ==
    <<<<<<"a", "w", "d">>,
        <<"A", "W", "D">>>>,
      <<<<"a", "l", "l", " ", "w", "h", "e", "e", "l", " ", "d", "r", "i", "v", "e">>,
        <<"A", "W", "D">>>>,
      <<<<"a", "l", "l", "-", "w", "h", "e", "e", "l", " ", "d", "r", "i", "v", "e">>,
        <<"A", "W", "D">>>>,
      <<<<"x", "d", "r", "i", "v", "e">>,
        <<"A", "W", "D">>>>,
      <<<<"4", "m", "a", "t", "i", "c">>,
        <<"A", "W", "D">>>>,
      <<<<"4", "m", "o", "t", "i", "o", "n">>,
        <<"A", "W", "D">>>>,
      <<<<"q", "u", "a", "t", "t", "r", "o">>,
        <<"A", "W", "D">>>>,
      <<<<"f", "w", "d">>,
        <<"F", "W", "D">>>>,
      <<<<"f", "r", "o", "n", "t", " ", "w", "h", "e", "e", "l", " ", "d", "r", "i", "v", "e">>,
        <<"F", "W", "D">>>>,
      <<<<"f", "r", "o", "n", "t", "-", "w", "h", "e", "e", "l", " ", "d", "r", "i", "v", "e">>,
        <<"F", "W", "D">>>>,
      <<<<"r", "w", "d">>,
        <<"R", "W", "D">>>>,
      <<<<"r", "e", "a", "r", " ", "w", "h", "e", "e", "l", " ", "d", "r", "i", "v", "e">>,
        <<"R", "W", "D">>>>,
      <<<<"r", "e", "a", "r", "-", "w", "h", "e", "e", "l", " ", "d", "r", "i", "v", "e">>,
        <<"R", "W", "D">>>>,
      <<<<"4", "w", "d">>,
        <<"4", "W", "D">>>>,
      <<<<"4", "x", "4">>,
        <<"4", "W", "D">>>>,
      <<<<"f", "o", "u", "r", " ", "w", "h", "e", "e", "l", " ", "d", "r", "i", "v", "e">>,
        <<"4", "W", "D">>>>,
      <<<<"f", "o", "u", "r", "-", "w", "h", "e", "e", "l", " ", "d", "r", "i", "v", "e">>,
        <<"4", "W", "D">>>>>>

\* str.replace("-", " ")
HyphensToSpaces(t) == [i \in 1..Len(t) |-> IF t[i] = "-" THEN " " ELSE t[i]]

normalize_drivetrain(raw) ==
    IF ~Truthy(raw) THEN NoneStr
    ELSE LET t == HyphensToSpaces(Strip(Lower(raw)))
             exact == FirstIndex(DRIVETRAIN_NORMALIZE, LAMBDA e : e[1] = t)
             inside == FirstIndex(DRIVETRAIN_NORMALIZE, LAMBDA e : Contains(t, e[1]))
         IN  IF exact # 0 THEN DRIVETRAIN_NORMALIZE[exact][2]
             ELSE IF inside # 0 THEN DRIVETRAIN_NORMALIZE[inside][2]
             ELSE NoneStr

-----------------------------------------------------------------------------
(* CONDITION_REGEX (car_regexes.py) and _normalize_new_used (scraper.py) *)

\* the literals of the pattern and of the normaliser
LitPre == <<"p", "r", "e">>
LitOwned == <<"o", "w", "n", "e", "d">>
LitCertified == <<"c", "e", "r", "t", "i", "f", "i", "e", "d", " ">>
LitNew == <<"n", "e", "w">>
LitUsed == <<"u", "s", "e", "d">>
LitCpo == <<"c", "p", "o">>
WordCertified == <<"c", "e", "r", "t", "i", "f", "i", "e", "d">>
WordCpoDotted == <<"c", ".", "p", ".", "o">>
WordPreOwned == <<"p", "r", "e", "-", "o", "w", "n", "e", "d">>

\* \w: a letter, a digit or the underscore
WordCh(c) ==
    \/ \E i \in 1..26 : Lowers[i] = LowerCh(c)
    \/ \E d \in 1..10 : Digits[d] = c
    \/ c = "_"

\* \b before t[i]: exactly one of t[i - 1], t[i] is a word character
Boundary(t, i) ==
    (i > 1 /\ i - 1 <= Len(t) /\ WordCh(t[i - 1])) # (i >= 1 /\ i <= Len(t) /\ WordCh(t[i]))

\* a literal at i under re.IGNORECASE: the index after it, 0 without a match
LiteralEnd(t, i, lit) == IF StartsAt(Lower(t), i, lit) THEN i + Len(lit) ELSE 0

\* Pre[-\s]?Owned at i
PreOwnedEnd(t, i) ==
    With(LiteralEnd(t, i, LitPre), LAMBDA j :
        IF j = 0 THEN 0
        ELSE IF j <= Len(t) /\ (t[j] = "-" \/ IsSpace(t[j])) /\ LiteralEnd(t, j + 1, LitOwned) # 0
        THEN LiteralEnd(t, j + 1, LitOwned)
        ELSE LiteralEnd(t, j, LitOwned))

\* Certified Pre[-\s]?Owned at i
CertifiedEnd(t, i) ==
    With(LiteralEnd(t, i, LitCertified), LAMBDA j : IF j = 0 THEN 0 ELSE PreOwnedEnd(t, j))

\* the alternatives of the group at i, in the order the pattern lists them
ConditionAlternatives(t, i) ==
    <<LiteralEnd(t, i, LitNew), LiteralEnd(t, i, LitUsed), PreOwnedEnd(t, i), CertifiedEnd(t, i),
      LiteralEnd(t, i, LitCpo)>>

\* \b(...)\b at i: the index after the first alternative that a word boundary
\* follows, 0 without a match
CONDITION_REGEX(t, i) ==
    IF ~Boundary(t, i) THEN 0
    ELSE With(SelectSeq(ConditionAlternatives(t, i), LAMBDA e : e # 0 /\ Boundary(t, e)),
              LAMBDA ends : IF ends = << >> THEN 0 ELSE Head(ends))

\* first_group(CONDITION_REGEX, text): group 1 of the leftmost match,
\* stripped; None without a match
first_group_condition(text) ==
    LET starts == {i \in 1..Len(text) : CONDITION_REGEX(text, i) # 0}
    IN  IF starts = {} THEN NoneStr
        ELSE With(CHOOSE i \in starts : \A o \in starts : i <= o,
                  LAMBDA i : Strip(SubSeq(text, i, CONDITION_REGEX(text, i) - 1)))

_normalize_new_used(condition_text) ==
    IF ~Truthy(condition_text) THEN <<"new">>
    ELSE IF Contains(Lower(condition_text), WordCertified)
            \/ Contains(Lower(condition_text), LitCpo)
            \/ Contains(Lower(condition_text), WordCpoDotted)
    THEN <<"cpo">>
    ELSE IF Contains(Lower(condition_text), LitUsed) \/ Contains(Lower(condition_text), WordPreOwned)
    THEN <<"used">>
    ELSE <<"new">>

-----------------------------------------------------------------------------
(* Fuel type: FUEL_TYPE_LABEL_REGEX, FUEL_TYPE_VALUE_REGEX, ENGINE_REGEX,   *)
(* is_electric (car_regexes.py); _is_electric_keyword, _normalize_fuel_type,*)
(* _extract_field_value, _extract_fuel_type_from_page (scraper.py)          *)

\* [A-Za-z0-9]
AlNum(c) == WordCh(c) /\ c # "_"

\* [A-Za-z0-9 /+\-], the group of FUEL_TYPE_LABEL_REGEX
FuelValueCh(c) == AlNum(c) \/ c \in {" ", "/", "+", "-"}

\* [A-Za-z0-9 .+/&\-], the group of ENGINE_REGEX
EngineValueCh(c) == AlNum(c) \/ c \in {" ", ".", "+", "/", "&", "-"}

\* [^\n\r<], the group of the pattern of _extract_field_value
SameLineCh(c) == c \notin {"\n", "\r", "<"}

\* [:\s]
ColonOrSpace(c) == c = ":" \/ IsSpace(c)

\* the index after the longest run from i of characters that satisfy Test
RunEnd(t, i, Test(_)) ==
    IF \E k \in i..Len(t) : ~Test(t[k])
    THEN CHOOSE k \in i..Len(t) : ~Test(t[k]) /\ \A m \in i..(k - 1) : Test(t[m])
    ELSE Len(t) + 1

\* a group (V+) after a skipped part that greedily reaches from j to k - 1:
\* the longest run of V from k; when t[k] is not in V the skipped part
\* gives characters back, and the group is the last of them that is in V.
\* None without a match.
Captured(t, j, k, Value(_)) ==
    IF k <= Len(t) /\ Value(t[k]) THEN SubSeq(t, k, RunEnd(t, k, Value) - 1)
    ELSE IF \E p \in j..(k - 1) : Value(t[p])
    THEN <<t[CHOOSE p \in j..(k - 1) : Value(t[p]) /\ \A o \in (p + 1)..(k - 1) : ~Value(t[o])]>>
    ELSE NoneStr

\* (?:first\s*second|first)[:\s]*(V+) at i: group 1, None without a match
LabelledAt(t, i, first, second, Value(_)) ==
    With(LiteralEnd(t, i, first), LAMBDA e :
        IF e = 0 THEN NoneStr
        ELSE With(IF second = << >> THEN 0 ELSE LiteralEnd(t, SpacesEnd(t, e), second), LAMBDA f :
                IF f # 0 /\ Captured(t, f, RunEnd(t, f, ColonOrSpace), Value) # NoneStr
                THEN Captured(t, f, RunEnd(t, f, ColonOrSpace), Value)
                ELSE Captured(t, e, RunEnd(t, e, ColonOrSpace), Value)))

\* the leftmost index at which a pattern matches, 0 if it matches nowhere
Leftmost(t, GroupAt(_, _)) ==
    IF \E i \in 1..Len(t) : GroupAt(t, i) # NoneStr
    THEN CHOOSE i \in 1..Len(t) : GroupAt(t, i) # NoneStr /\ \A k \in 1..(i - 1) : GroupAt(t, k) = NoneStr
    ELSE 0

\* FUEL_TYPE_LABEL_REGEX at i: group 1
FUEL_TYPE_LABEL_REGEX(t, i) == LabelledAt(t, i, <<"f", "u", "e", "l">>, <<"t", "y", "p", "e">>, FuelValueCh)

\* ENGINE_REGEX at i: group 1
ENGINE_REGEX(t, i) ==
    IF LabelledAt(t, i, <<"e", "n", "g", "i", "n", "e">>, << >>, EngineValueCh) # NoneStr
    THEN LabelledAt(t, i, <<"e", "n", "g", "i", "n", "e">>, << >>, EngineValueCh)
    ELSE LabelledAt(t, i, <<"m", "o", "t", "o", "r">>, << >>, EngineValueCh)

\* Plug[-\s]?In Hybrid at i: the index after it, 0 without a match
PlugInHybridEnd(t, i) ==
    With(LiteralEnd(t, i, <<"p", "l", "u", "g">>), LAMBDA j :
        IF j = 0 THEN 0
        ELSE IF j <= Len(t) /\ (t[j] = "-" \/ IsSpace(t[j])) /\ LiteralEnd(t, j + 1, <<"i", "n", " ", "h", "y", "b", "r", "i", "d">>) # 0
        THEN LiteralEnd(t, j + 1, <<"i", "n", " ", "h", "y", "b", "r", "i", "d">>)
        ELSE LiteralEnd(t, j, <<"i", "n", " ", "h", "y", "b", "r", "i", "d">>))

\* \b(alternatives)\b at i, the alternatives given by the indices after
\* them in the order of the pattern: the group, None without a match
WordAt(t, i, ends) ==
    IF ~Boundary(t, i) THEN NoneStr
    ELSE With(SelectSeq(ends, LAMBDA e : e # 0 /\ Boundary(t, e)),
              LAMBDA ok : IF ok = << >> THEN NoneStr ELSE SubSeq(t, i, Head(ok) - 1))

\* FUEL_TYPE_VALUE_REGEX at i: group 1
FUEL_TYPE_VALUE_REGEX(t, i) ==
    WordAt(t, i, <<LiteralEnd(t, i, <<"e", "l", "e", "c", "t", "r", "i", "c">>), LiteralEnd(t, i, <<"e", "v">>), LiteralEnd(t, i, <<"b", "e", "v">>),
                   LiteralEnd(t, i, <<"h", "y", "b", "r", "i", "d">>), PlugInHybridEnd(t, i), LiteralEnd(t, i, <<"p", "h", "e", "v">>),
                   LiteralEnd(t, i, <<"g", "a", "s", "o", "l", "i", "n", "e">>), LiteralEnd(t, i, <<"g", "a", "s">>),
                   LiteralEnd(t, i, <<"d", "i", "e", "s", "e", "l">>), LiteralEnd(t, i, <<"f", "l", "e", "x", " ", "f", "u", "e", "l">>)>>)

\* EV_KEYWORDS_REGEX at i: group 1
EV_KEYWORDS_REGEX(t, i) ==
    WordAt(t, i, <<LiteralEnd(t, i, <<"e", "l", "e", "c", "t", "r", "i", "c">>), LiteralEnd(t, i, <<"e", "v">>), LiteralEnd(t, i, <<"b", "e", "v">>),
                   LiteralEnd(t, i, <<"b", "a", "t", "t", "e", "r", "y", " ", "e", "l", "e", "c", "t", "r", "i", "c">>), LiteralEnd(t, i, <<"z", "e", "r", "o", " ", "e", "m", "i", "s", "s", "i", "o", "n">>),
                   LiteralEnd(t, i, <<"z", "e", "v">>), PlugInHybridEnd(t, i), LiteralEnd(t, i, <<"p", "h", "e", "v">>)>>)

\* first_group(pattern, text): group 1 of the leftmost match, stripped
first_group(t, GroupAt(_, _)) ==
    With(Leftmost(t, GroupAt), LAMBDA i : IF i = 0 THEN NoneStr ELSE Strip(GroupAt(t, i)))

\* is_electric(text) of car_regexes.py, imported as regex_is_electric:
\* EV_KEYWORDS_REGEX.search(text or "") is not None
regex_is_electric(text) == text # NoneStr /\ Leftmost(text, EV_KEYWORDS_REGEX) # 0

electric_keywords ==
    {<<"e", "l", "e", "c", "t", "r", "i", "c">>,
     <<"e", "v">>,
     <<"b", "a", "t", "t", "e", "r", "y">>,
     <<"p", "l", "u", "g", "-", "i", "n">>,
     <<"p", "l", "u", "g", "i", "n">>,
     <<"p", "h", "e", "v">>,
     <<"b", "e", "v">>,
     <<"t", "e", "s", "l", "a">>,
     <<"r", "i", "v", "i", "a", "n">>,
     <<"l", "u", "c", "i", "d">>,
     <<"e", "l", "e", "c", "t", "r", "i", "c", " ", "v", "e", "h", "i", "c", "l", "e">>,
     <<"z", "e", "r", "o", " ", "e", "m", "i", "s", "s", "i", "o", "n">>,
     <<"z", "e", "r", "o", "-", "e", "m", "i", "s", "s", "i", "o", "n">>,
     <<"e", "l", "e", "c", "t", "r", "i", "c", " ", "d", "r", "i", "v", "e">>,
     <<"e", "l", "e", "c", "t", "r", "i", "c", " ", "m", "o", "t", "o", "r">>}

_is_electric_keyword(text) ==
    Truthy(text) /\ \E keyword \in electric_keywords : Contains(Lower(text), keyword)

\* the keywords of _normalize_fuel_type
PlugInQualifier(text_lower) == Contains(text_lower, <<"p", "l", "u", "g", "-", "i", "n">>) \/ Contains(text_lower, <<"p", "h", "e", "v">>)

_normalize_fuel_type(fuel_text) ==
    IF ~Truthy(fuel_text) THEN NoneStr
    ELSE With(Lower(fuel_text), LAMBDA text_lower :
        IF \E kw \in {<<"e", "l", "e", "c", "t", "r", "i", "c">>, <<"e", "v">>, <<"b", "e", "v">>, <<"b", "a", "t", "t", "e", "r", "y", " ", "e", "l", "e", "c", "t", "r", "i", "c">>} : Contains(text_lower, kw)
        THEN IF PlugInQualifier(text_lower) THEN <<"phev">> ELSE <<"electric">>
        ELSE IF Contains(text_lower, <<"h", "y", "b", "r", "i", "d">>)
        THEN IF PlugInQualifier(text_lower) THEN <<"phev">> ELSE <<"hybrid">>
        ELSE IF Contains(text_lower, <<"g", "a", "s", "o", "l", "i", "n", "e">>) \/ Contains(text_lower, <<"g", "a", "s">>) THEN <<"gasoline">>
        ELSE IF Contains(text_lower, <<"d", "i", "e", "s", "e", "l">>) THEN <<"diesel">>
        ELSE NoneStr)

\* FIELD_KEYWORDS["fuel_type"] (field_keywords.py)
fuel_type_keywords ==
    <<<<"F", "u", "e", "l", " ", "T", "y", "p", "e">>,
      <<"F", "u", "e", "l">>,
      <<"E", "n", "g", "i", "n", "e">>,
      <<"H", "y", "b", "r", "i", "d">>,
      <<"P", "l", "u", "g", "-", "I", "n", " ", "H", "y", "b", "r", "i", "d">>,
      <<"P", "H", "E", "V">>,
      <<"E", "l", "e", "c", "t", "r", "i", "c">>,
      <<"E", "V">>,
      <<"B", "a", "t", "t", "e", "r", "y", " ", "E", "l", "e", "c", "t", "r", "i", "c">>,
      <<"B", "E", "V">>>>

\* re.sub(r'\s+', ' ', value)
RECURSIVE CollapseBlanks(_)
CollapseBlanks(s) ==
    IF s = << >> THEN << >>
    ELSE IF IsSpace(Head(s)) THEN <<" ">> \o CollapseBlanks(LStrip(s))
    ELSE <<Head(s)>> \o CollapseBlanks(Tail(s))

\* the index after \s*:?\s* from e, each part taking all it can
LabelSkipEnd(t, e) ==
    With(SpacesEnd(t, e), LAMBDA a : SpacesEnd(t, IF a <= Len(t) /\ t[a] = ":" THEN a + 1 ELSE a))

\* (kw1|kw2|...)\s*:?\s*([^\n\r<]+) at i, the keywords in their order:
\* group 2, None without a match
FieldValueAt(t, i) ==
    With(SelectSeq(fuel_type_keywords, LAMBDA kw :
             /\ LiteralEnd(t, i, Lower(kw)) # 0
             /\ Captured(t, LiteralEnd(t, i, Lower(kw)),
                         LabelSkipEnd(t, LiteralEnd(t, i, Lower(kw))), SameLineCh) # NoneStr),
         LAMBDA kws :
             IF kws = << >> THEN NoneStr
             ELSE With(LiteralEnd(t, i, Lower(Head(kws))), LAMBDA e :
                       Captured(t, e, LabelSkipEnd(t, e), SameLineCh)))

\* _extract_field_value(html, "fuel_type") for a page of paragraphs: the
\* pattern over the page text; the page has no dt, th or label element
_extract_field_value(text) ==
    With(Leftmost(text, FieldValueAt), LAMBDA i :
        IF i = 0 THEN NoneStr
        ELSE With(CollapseBlanks(Strip(FieldValueAt(text, i))), LAMBDA value :
                  IF Truthy(value) /\ ~InSeq(value, fuel_type_keywords) THEN value ELSE NoneStr))

\* the texts found by html.find_all(string=re.compile(r'engine|motor', re.I))
\* whose paragraph is electric by _is_electric_keyword or is_electric
ElectricEngineElements(leaves) ==
    SelectSeq(leaves, LAMBDA text :
        /\ Contains(Lower(text), <<"e", "n", "g", "i", "n", "e">>) \/ Contains(Lower(text), <<"m", "o", "t", "o", "r">>)
        /\ _is_electric_keyword(text) \/ regex_is_electric(text))

\* DealershipScraper._extract_fuel_type_from_page(html); html.json_ld is
\* <<fuelType>> when _extract_json_ld finds an object with that key
_extract_fuel_type_from_page(html) ==
    LET page_text == get_text(html.leaves)
        labelled == _normalize_fuel_type(first_group(page_text, FUEL_TYPE_LABEL_REGEX))
        bare == _normalize_fuel_type(first_group(page_text, FUEL_TYPE_VALUE_REGEX))
        engine_text == first_group(page_text, ENGINE_REGEX)
        fuel_text == _extract_field_value(page_text)
        engine_elements == ElectricEngineElements(html.leaves)
    IN  IF html.json_ld # << >> THEN _normalize_fuel_type(html.json_ld[1])
        ELSE IF labelled # NoneStr THEN labelled
        ELSE IF bare # NoneStr THEN bare
        ELSE IF Truthy(engine_text) /\ regex_is_electric(engine_text) THEN _normalize_fuel_type(engine_text)
        ELSE IF Truthy(fuel_text) THEN _normalize_fuel_type(fuel_text)
        ELSE IF engine_elements # << >> THEN _normalize_fuel_type(Head(engine_elements))
        ELSE NoneStr

-----------------------------------------------------------------------------
(* Single calls of the pure functions: a record is constructed or a text   *)
(* is given, the function is applied, its result is kept                    *)

pureUnused == <<dedupVars, runVars, writerVars>>

PureInit ==
    /\ DedupParked
    /\ RunParked
    /\ PureParked
    /\ WriterParked

\* the amounts a price field may hold
Amounts == {NoneNum, Some(0), Some(41500), Some(45000)}

\* CarListing(...) with the three price fields given, the rest as a Tesla Model 3
PricedListing(sale, total, msrp) ==
    CarListing(<<"A">>, <<"http", "A">>, NoneStr, 2025, <<"Tesla">>, <<"Model 3">>,
               sale, total, msrp, <<"electric">>, NoneNum, <<1, 0>>)

\* the records CarListing.__post_init__ accepts, over the amounts
PricePool ==
    {car \in {PricedListing(s, t, m) : s \in Amounts, t \in Amounts, m \in Amounts} :
        PostInitOk(car)}

\* car = CarListing(...); car.price
ReadPrice ==
    \E car \in PricePool :
        /\ fn = "none"
        /\ fn' = "price"
        /\ arg' = car
        /\ retval' = price(car)
        /\ UNCHANGED pureUnused

\* the records validate_listing is given: any price fields; a known electric
\* car, one outside the price table, a petrol car, a placeholder make; years
\* in and out of range; mileages; identification numbers
ValidatePool ==
    {car \in {[PricedListing(s, t, m) EXCEPT !.make = mk[1], !.model = mk[2],
                  !.fuel_type = mk[3], !.year = y, !.mileage = mi, !.vin = v] :
                s \in {NoneNum, Some(0), Some(41500)}, t \in {NoneNum, Some(0)},
                m \in {NoneNum, Some(3000), Some(300000)},
                mk \in {<<<<"Tesla">>, <<"Model 3">>, <<"electric">>>>,
                        <<<<"Rivian">>, <<"R1T">>, NoneStr>>,
                        <<<<"Toyota">>, <<"Camry">>, <<"gasoline">>>>,
                        <<<<"Unknown">>, <<"Model 3">>, <<"electric">>>>},
                y \in {2014, 2025},
                mi \in {NoneNum, Some(600)},
                v \in {NoneStr, <<"5YJ3E1EA7KF317000">>, <<"test">>}} :
        PostInitOk(car)}

\* DataValidator.validate_listing(car, strict)
ValidateListing ==
    \E car \in ValidatePool, strict \in BOOLEAN :
        /\ fn = "none"
        /\ fn' = "validate_listing"
        /\ arg' = [car |-> car, strict |-> strict]
        /\ retval' = validate_listing(car, strict)
        /\ UNCHANGED pureUnused

\* the pieces pages are written with
MsrpLabel == <<"M", "S", "R", "P", " ">>
SaleLabel == <<"S", "a", "l", "e", " ", "P", "r", "i", "c", "e", " ">>
TotalLabel == <<"T", "o", "t", "a", "l", " ">>
ShortGap == <<" ", ".", ".", ".", " ">>
LongGap == [i \in 1..60 |-> "."]

\* an amount as a page spells it: "$45,000", "$45000" or "$45000.00"
Spelled(n, style) ==
    <<"$">> \o (CASE style = "grouped" -> StrOf(n \div 1000) \o <<",">>
                                          \o SubSeq(StrOf(1000 + (n % 1000)), 2, 4)
                  [] style = "plain" -> StrOf(n)
                  [] style = "cents" -> StrOf(n) \o <<".", "0", "0">>)

\* a page with an MSRP-labelled and a sale-labelled amount, in either order,
\* near or far apart, in one text node or two, with or without a
\* total-labelled amount after them; the labelled amounts are kept with it
PricePage(msrpFirst, style, gap, split, withTotal) ==
    LET a == MsrpLabel \o Spelled(45000, style)
        b == SaleLabel \o Spelled(41500, style)
        first == IF msrpFirst THEN a ELSE b
        second == IF msrpFirst THEN b ELSE a
        tail == IF withTotal THEN gap \o TotalLabel \o Spelled(43000, style) ELSE << >>
    IN  [page |-> IF split THEN <<first \o gap, second \o tail>>
                  ELSE <<first \o gap \o second \o tail>>,
         msrp |-> 45000, sale |-> 41500,
         total |-> IF withTotal THEN Some(43000) ELSE NoneNum]

PricePages ==
    {PricePage(f, st, g, sp, wt) :
        f \in BOOLEAN, st \in {"grouped", "plain", "cents"}, g \in {ShortGap, LongGap},
        sp \in BOOLEAN, wt \in BOOLEAN}

InternetLabel == <<"I", "n", "t", "e", "r", "n", "e", "t", " ">>

\* a page with one or two sale-labelled amounts next to each other and, more
\* than the context width away from them, before or after, an amount under
\* no label (loose = 0: none); the amounts are kept with it
SalePage(sales, loose, looseFirst, style) ==
    LET labelled == SaleLabel \o Spelled(sales[1], style)
                    \o (IF Len(sales) = 1 THEN << >>
                        ELSE ShortGap \o InternetLabel \o Spelled(sales[2], style))
    IN  [page |-> <<IF loose = 0 THEN labelled
                    ELSE IF looseFirst THEN Spelled(loose, style) \o LongGap \o labelled
                    ELSE labelled \o LongGap \o Spelled(loose, style)>>,
         sales |-> Range(sales),
         loose |-> IF loose = 0 THEN {} ELSE {loose}]

SalePages ==
    {SalePage(s, l, f, st) :
        s \in {<<41500>>, <<41500, 40000>>, <<40000, 41500>>}, l \in {0, 30000, 50000},
        f \in BOOLEAN, st \in {"plain", "cents"}}

\* DealershipScraper._extract_price_from_page(html)
ExtractPriceFromPage ==
    \E p \in PricePages \cup SalePages :
        /\ fn = "none"
        /\ fn' = "_extract_price_from_page"
        /\ arg' = p
        /\ retval' = _extract_price_from_page(p.page)
        /\ UNCHANGED pureUnused

\* detail pages: headings with and without year, make, model; other
\* elements naming a vehicle, a mileage, a condition
DetailPages ==
    {[title |-> t, body |-> b] :
        t \in {<< >>, <<"2025", "Tesla", "Model", "3">>, <<"2028", "Tesla", "Model", "3">>,
               <<"Tesla", "Model", "3">>, <<"2025", "Tesla">>, <<"2025", "Roadster">>,
               <<"New", "2027", "Kia", "EV6">>, <<"Welcome">>},
        b \in {<< >>, <<<<"12", "mi">>>>, <<<<"Used", "Hyundai", "IONIQ">>, <<"600", "miles">>>>,
               <<<<"Certified", "1999", "Audi">>>>, <<<<"our", "Rivian", "Truck">>>>}}

ParseDetailPage ==
    \E page \in DetailPages :
        /\ fn = "none"
        /\ fn' = "parse_detail_page"
        /\ arg' = page
        /\ retval' = parse_detail_page(page)
        /\ UNCHANGED pureUnused

SeleniumParseDetailPage ==
    \E page \in DetailPages :
        /\ fn = "none"
        /\ fn' = "selenium_parse_detail_page"
        /\ arg' = page
        /\ retval' = selenium_parse_detail_page(page)
        /\ UNCHANGED pureUnused

\* raw drivetrain texts: the canonical names, other spellings of them, texts
\* that name no drivetrain, the empty string and None
RawDrivetrains ==
    {NoneStr, << >>,
     <<"A", "W", "D">>,
     <<"F", "W", "D">>,
     <<"R", "W", "D">>,
     <<"4", "W", "D">>,
     <<"a", "w", "d">>,
     <<" ", "4", "x", "4", " ">>,
     <<"A", "l", "l", "-", "W", "h", "e", "e", "l", " ", "D", "r", "i", "v", "e">>,
     <<"f", "r", "o", "n", "t", " ", "w", "h", "e", "e", "l", " ", "d", "r", "i", "v", "e">>,
     <<"R", "e", "a", "r", "-", "W", "h", "e", "e", "l", " ", "D", "r", "i", "v", "e">>,
     <<"F", "o", "u", "r", " ", "W", "h", "e", "e", "l", " ", "D", "r", "i", "v", "e">>,
     <<"Q", "u", "a", "t", "t", "r", "o", " ", "A", "W", "D">>,
     <<"x", "D", "r", "i", "v", "e", "4", "0">>,
     <<"4", "M", "A", "T", "I", "C">>,
     <<"4", "M", "o", "t", "i", "o", "n">>,
     <<"F", "W", "D", "/", "A", "W", "D">>,
     <<"2", "W", "D">>,
     <<"M", "a", "n", "u", "a", "l">>,
     <<"a", "l", "l", " ", "w", "h", "e", "e", "l">>,
     <<"-">>,
     <<" ">>}

\* normalize_drivetrain(raw)
NormalizeDrivetrain ==
    \E raw \in RawDrivetrains :
        /\ fn = "none"
        /\ fn' = "normalize_drivetrain"
        /\ arg' = raw
        /\ retval' = normalize_drivetrain(raw)
        /\ UNCHANGED pureUnused

\* normalize_drivetrain applied to the value it returned
NormalizeDrivetrainAgain ==
    /\ fn = "normalize_drivetrain"
    /\ retval # NoneStr
    /\ fn' = "normalize_drivetrain_again"
    /\ arg' = retval
    /\ retval' = normalize_drivetrain(retval)
    /\ UNCHANGED pureUnused

\* the paragraphs pages are written with
FuelLines ==
    {<<"F", "u", "e", "l", " ", "T", "y", "p", "e", ":", " ", "D", "i", "e", "s", "e", "l">>,
     <<"F", "u", "e", "l", " ", "T", "y", "p", "e", ":", " ", "E", "l", "e", "c", "t", "r", "i", "c">>,
     <<"F", "u", "e", "l", ":", " ", "U", "n", "l", "e", "a", "d", "e", "d">>,
     <<"P", "l", "u", "g", "-", "I", "n", " ", "H", "y", "b", "r", "i", "d">>,
     <<"M", "o", "t", "o", "r", ":", " ", "Z", "e", "r", "o", " ", "E", "m", "i", "s", "s", "i", "o", "n">>,
     <<"M", "o", "t", "o", "r", ":", " ", "D", "u", "a", "l", " ", "E", "l", "e", "c", "t", "r", "i", "c">>,
     <<"E", "n", "g", "i", "n", "e", ":", " ", "V", "6">>,
     <<"F", "u", "e", "l", "s", ":", " ", "g", "a", "s", "o", "l", "i", "n", "e", "9", "5">>,
     <<"R", "a", "n", "g", "e", ":", " ", "3", "0", "0", " ", "m", "i">>}

\* the fuelType values of the structured data
FuelTypeValues ==
    {<<"P", "e", "t", "r", "o", "l">>,
     <<"E", "l", "e", "c", "t", "r", "i", "c">>,
     <<"D", "i", "e", "s", "e", "l">>,
     <<>>}

\* pages of up to two paragraphs, a line end after each, with or without
\* structured data that names a fuel type; leaves are the texts of the page
FuelPages ==
    {[json_ld |-> j, leaves |-> l] :
        j \in {<< >>} \cup {<<v>> : v \in FuelTypeValues},
        l \in {<< >>} \cup {<<a, <<"\n">>>> : a \in FuelLines}
              \cup {<<a, <<"\n">>, b, <<"\n">>>> : a \in FuelLines, b \in FuelLines}}

\* DealershipScraper._extract_fuel_type_from_page(html)
ExtractFuelTypeFromPage ==
    \E html \in FuelPages :
        /\ fn = "none"
        /\ fn' = "_extract_fuel_type_from_page"
        /\ arg' = html
        /\ retval' = _extract_fuel_type_from_page(html)
        /\ UNCHANGED pureUnused

\* condition texts: every token of the pattern as written, in capitals and
\* in small letters, alone and inside a sentence, each with the condition
\* the token stands for; words that only contain a token
ConditionTokens ==
    {<<<<"N", "e", "w">>, <<"new">>>>,
     <<<<"U", "s", "e", "d">>, <<"used">>>>,
     <<<<"P", "r", "e", "-", "O", "w", "n", "e", "d">>, <<"used">>>>,
     <<<<"P", "r", "e", " ", "O", "w", "n", "e", "d">>, <<"used">>>>,
     <<<<"P", "r", "e", "O", "w", "n", "e", "d">>, <<"used">>>>,
     <<<<"C", "e", "r", "t", "i", "f", "i", "e", "d", " ", "P", "r", "e", "-", "O", "w", "n", "e", "d">>,
       <<"cpo">>>>,
     <<<<"C", "e", "r", "t", "i", "f", "i", "e", "d", " ", "P", "r", "e", " ", "O", "w", "n", "e", "d">>,
       <<"cpo">>>>,
     <<<<"C", "e", "r", "t", "i", "f", "i", "e", "d", " ", "P", "r", "e", "O", "w", "n", "e", "d">>,
       <<"cpo">>>>,
     <<<<"C", "P", "O">>, <<"cpo">>>>}

Cased(text, case) ==
    CASE case = "upper" -> Upper(text) [] case = "lower" -> Lower(text) [] OTHER -> text

InSentence(text, inside) ==
    IF inside THEN <<"C", "o", "n", "d", "i", "t", "i", "o", "n", ":", " ">>
                   \o text \o <<" ", "v", "e", "h", "i", "c", "l", "e">>
    ELSE text

ConditionTexts ==
    {[text |-> InSentence(Cased(tok[1], c), e), token |-> Cased(tok[1], c), stands_for |-> tok[2]] :
        tok \in ConditionTokens, c \in {"written", "upper", "lower"}, e \in BOOLEAN}
    \cup {[text |-> w, token |-> NoneStr, stands_for |-> NoneStr] :
            w \in {<<"N", "e", "w", "e", "r">>, <<"U", "n", "u", "s", "e", "d">>}}

\* condition_raw = first_group(CONDITION_REGEX, page_text) and, with a match,
\* condition = self._normalize_new_used(condition_raw)
NormalizeNewUsed ==
    \E t \in ConditionTexts :
        /\ fn = "none"
        /\ fn' = "_normalize_new_used"
        /\ arg' = t
        /\ retval' = With(first_group_condition(t.text), LAMBDA raw :
                        [condition_raw |-> raw,
                         condition |-> IF Truthy(raw) THEN _normalize_new_used(raw) ELSE NoneStr])
        /\ UNCHANGED pureUnused

PureNext ==
    \/ ReadPrice
    \/ ValidateListing
    \/ ExtractPriceFromPage
    \/ ParseDetailPage
    \/ SeleniumParseDetailPage
    \/ NormalizeDrivetrain
    \/ NormalizeDrivetrainAgain
    \/ NormalizeNewUsed
    \/ ExtractFuelTypeFromPage

SpecPure == PureInit /\ [][PureNext]_vars

-----------------------------------------------------------------------------
(* StreamingOutputWriter, format 'json' (utils.py).  The file is a text of  *)
(* characters; the metadata block and the fields of one listing, which no   *)
(* operation of the writer cuts, are one element each.                      *)

MaxAppends == 3

\* '{\n  "metadata": {...},\n  "cars": ' as _initialize_file writes it
MetadataBlock == "{ metadata, cars:"

\* the lines between the braces of json.dumps(car.to_dict(), indent=4)
FieldLines(car) ==
    CASE car = GoodListing(<<"A">>, <<1, 0>>) -> "fields of A"
      [] car = GoodListing(<<"B">>, <<1, 0>>) -> "fields of B"

\* the lists append_cars is called with
WriterLists ==
    LET a == GoodListing(<<"A">>, <<1, 0>>)
        b == GoodListing(<<"B">>, <<1, 0>>)
    IN  {<< >>, <<a>>, <<b>>, <<a, b>>, <<b, a>>, <<a, a>>}

\* str.endswith
EndsWith(text, suffix) ==
    Len(text) >= Len(suffix) /\ SubSeq(text, Len(text) - Len(suffix) + 1, Len(text)) = suffix

\* text[:-n]
DropLast(text, n) == SubSeq(text, 1, Len(text) - n)

\* '\n  ]\n}'
ClosingText == <<"\n", " ", " ", "]", "\n", "}">>

\* the file after _initialize_file with append=False
_initialize_file == <<MetadataBlock, "[", "\n">>

\* the lines written for one car: each line of car_json after four blanks
CarLines(car) ==
    <<" ", " ", " ", " ", "{", "\n", FieldLines(car), " ", " ", " ", " ", "}", "\n">>

\* "for i, car in enumerate(cars)": ',\n' before every car but the first
RECURSIVE CarsText(_, _)
CarsText(list, i) ==
    IF i > Len(list) THEN << >>
    ELSE (IF i > 1 THEN <<",", "\n">> ELSE << >>) \o CarLines(list[i]) \o CarsText(list, i + 1)

\* the text append_cars leaves in the file, for a list that is not empty
append_cars(content, list) ==
    LET needs_comma == ~EndsWith(RStrip(content), <<"[", "\n">>)
        stripped == RStrip(content)
        opened == IF EndsWith(stripped, ClosingText) THEN DropLast(stripped, 7)
                  ELSE IF EndsWith(stripped, <<"]">>) THEN DropLast(stripped, 1)
                  ELSE stripped
    IN  opened \o (IF needs_comma THEN <<",", "\n">> ELSE << >>)
               \o CarsText(list, 1) \o <<" ", " ", "]", "\n", "}">>

\* the text finalize leaves in the file
finalize(content) ==
    IF ~EndsWith(RStrip(content), <<"}">>)
    THEN IF ~EndsWith(RStrip(content), <<"]">>) THEN content \o ClosingText
         ELSE content \o <<"\n", "}">>
    ELSE content

\* the tokens of a text: JSON ignores blanks and line ends between them
Tokens(content) == SelectSeq(content, LAMBDA c : ~IsSpace(c))

\* the elements of the cars array from token i on, up to the end of the
\* document: objects separated by commas, then "]" and "}"
RECURSIVE ArrayItems(_, _)
ArrayItems(t, i) ==
    IF i + 2 <= Len(t) /\ t[i] = "{" /\ t[i + 1] \notin {"{", "}", "[", "]", ","} /\ t[i + 2] = "}"
    THEN IF i + 3 <= Len(t) /\ t[i + 3] = ","
         THEN With(ArrayItems(t, i + 4),
                   LAMBDA r : [ok |-> r.ok, cars |-> <<t[i + 1]>> \o r.cars])
         ELSE [ok |-> SubSeq(t, i + 3, Len(t)) = <<"]", "}">>, cars |-> <<t[i + 1]>>]
    ELSE [ok |-> FALSE, cars |-> << >>]

\* json.load(f): ok is FALSE when it raises; cars is data['cars']
json_load(content) ==
    With(Tokens(content), LAMBDA t :
        IF Len(t) >= 2 /\ t[1] = MetadataBlock /\ t[2] = "["
        THEN IF SubSeq(t, 3, Len(t)) = <<"]", "}">> THEN [ok |-> TRUE, cars |-> << >>]
             ELSE ArrayItems(t, 3)
        ELSE [ok |-> FALSE, cars |-> << >>])

\* get_count() for a file that exists: 0 when json.load raises
get_count(content) ==
    With(json_load(content), LAMBDA data : IF data.ok THEN Len(data.cars) ELSE 0)

writerUnused == <<dedupVars, runVars, pureVars>>

WriterInit ==
    /\ DedupParked
    /\ RunParked
    /\ PureParked
    /\ out_text = << >>
    /\ appended = << >>
    /\ w_pc = "new"
    /\ w_count = << >>

\* StreamingOutputWriter(output_path, format='json', append=False)
WriterConstruct ==
    /\ w_pc = "new"
    /\ out_text' = _initialize_file
    /\ w_pc' = "open"
    /\ UNCHANGED <<appended, w_count, writerUnused>>

\* append_cars(cars): nothing is done for an empty list
AppendCars(list) ==
    /\ w_pc = "open"
    /\ Len(appended) < MaxAppends
    /\ out_text' = IF list = << >> THEN out_text ELSE append_cars(out_text, list)
    /\ appended' = Append(appended, list)
    /\ UNCHANGED <<w_pc, w_count, writerUnused>>

\* finalize()
Finalize ==
    /\ w_pc = "open"
    /\ out_text' = finalize(out_text)
    /\ w_pc' = "finalized"
    /\ UNCHANGED <<appended, w_count, writerUnused>>

\* get_count()
GetCount ==
    /\ w_pc = "finalized"
    /\ w_count' = <<get_count(out_text)>>
    /\ w_pc' = "counted"
    /\ UNCHANGED <<out_text, appended, writerUnused>>

WriterNext ==
    \/ WriterConstruct
    \/ \E list \in WriterLists : AppendCars(list)
    \/ Finalize
    \/ GetCount

SpecWriter == WriterInit /\ [][WriterNext]_vars

-----------------------------------------------------------------------------
(* Properties of CheckpointManager *)

\* what a manager holds
Manager ==
    [completed_dealerships |-> completed_dealerships, scraped_listings |-> scraped_listings,
     start_time |-> start_time, last_update |-> last_update]

\* the state the last successful save() was called to keep
LastSaved ==
    [completed_dealerships |-> hist.persisted.completed,
     scraped_listings |-> hist.persisted.listings,
     start_time |-> hist.persisted.start_time, last_update |-> hist.persisted.last_update]

\* C1: at every step of save() the file at the checkpoint path is the complete
\* previous file (until the rename) or the complete new one (after it), never
\* a partly written one; a process that died between the temporary write and
\* the rename leaves the previous checkpoint, and a fresh load() on it succeeds
\* and restores what the previous successful save() stored.
C1_AtomicSave ==
    /\ fs[checkpoint_file] # PartialFile
    /\ hist.sv_phase \in {"begun", "tmp_open", "tmp_written", "failed"}
          => fs[checkpoint_file] = hist.sv_old
    /\ hist.sv_phase = "replaced"
          => /\ fs[checkpoint_file].kind = "json"
             /\ Range(fs[checkpoint_file].data.completed_dealerships) = hist.persisted.completed
             /\ Len(fs[checkpoint_file].data.scraped_listings) = Len(hist.persisted.listings)
             /\ Load(fs[checkpoint_file], FreshManager) = [ok |-> TRUE, m |-> LastSaved]
    /\ (hist.fresh_load /\ hist.interrupted /\ hist.sv_phase \in {"tmp_open", "tmp_written"}
          /\ hist.persisted.valid)
          => load_result = "true" /\ Manager = LastSaved

\* a process died after the temporary file was written and before the rename,
\* a checkpoint of an earlier save() with records lay at the path, and a new
\* manager has loaded it
C1_Witness ==
    /\ hist.fresh_load /\ hist.interrupted
    /\ hist.sv_phase = "tmp_written"
    /\ hist.persisted.valid
    /\ fs[temp_file].kind = "json"
    /\ fs[temp_file] # fs[checkpoint_file]
    /\ Len(scraped_listings) > 0

-----------------------------------------------------------------------------
(* Properties of scrape_all *)

\* the completed sources the file at the checkpoint path names
FileCompleted ==
    IF fs[checkpoint_file].kind = "json"
    THEN Range(fs[checkpoint_file].data.completed_dealerships)
    ELSE {}

Processed == Range(hist.processed)

\* C2: load() that fails on a file that exists leaves the manager fresh and
\* empty (no completed source, no record, no start time, no last update),
\* and the run that follows processes every source of the catalog.
C2_FailedLoadIsFresh ==
    (load_result = "false" /\ fs[checkpoint_file].kind # "absent")
       => /\ hist.fresh_load => Manager = FreshManager
          /\ pc = "loop" => remaining = catalog

\* C4: after an interruption of scrape_all, a restart and load(), the manager
\* holds what the last successful save stored: every source whose
\* post-source save succeeded, and the records accumulated up to that save.
C4_RestoresLastSave ==
    (hist.fresh_load /\ hist.interrupted /\ hist.persisted.valid)
       => /\ load_result = "true"
          /\ completed_dealerships = hist.persisted.completed
          /\ scraped_listings = hist.persisted.listings
          /\ hist.saved_after \subseteq completed_dealerships

\* the run was interrupted while the save after the second source was under
\* way; the new process restored the first source and its records only
C4_Witness ==
    /\ hist.fresh_load /\ hist.interrupted
    /\ hist.sv_phase \in {"tmp_open", "tmp_written"}
    /\ hist.saved_after = {<<"A">>}
    /\ completed_dealerships = {<<"A">>}
    /\ Len(scraped_listings) > 0

\* C5 as stated: when the run moves to the next source, every source handled
\* so far, scraped or thrown, is named completed in the checkpoint file.
C5_PersistedBeforeNext ==
    pc \in {"loop", "final", "done"} => Processed \subseteq FileCompleted

\* C5, amended: when the run moves to the next source, every source handled
\* so far, scraped or thrown, is marked completed in memory; it is named
\* completed in the checkpoint file when the save after it wrote the file;
\* and a resumed run processes no source that the loaded checkpoint names
\* completed, nor one whose save succeeded in an earlier run.
C5_MarkedAndSkipped ==
    /\ pc \in {"loop", "final", "done"}
          => Processed \subseteq (completed_local \cap completed_dealerships)
    /\ hist.saved_after \subseteq FileCompleted
    /\ Processed \cap hist.resumed = {}
    /\ Processed \cap hist.saved_prior = {}

\* a source threw in the first run and the save after it wrote the file; the
\* second run is at the top of its loop with that source left out
C5_Witness ==
    /\ runs = 2 /\ pc = "loop"
    /\ hist.threw \cap hist.saved_prior # {}
    /\ hist.threw \cap hist.resumed # {}
    /\ remaining # catalog

\* C6: every record in the output has been accepted by validate_listing.
C6_OutputValidated ==
    \A i \in 1..Len(output) : is_valid(output[i], FALSE)

-----------------------------------------------------------------------------
(* Properties of deduplicate_listings *)

Returned == dd_pc = "returned"

\* the identity keys as the specification words them
Absent(s) == s = NoneStr \/ s = << >>
HasVin(car) == ~Absent(car.vin)
HasUrl(car) == ~Absent(car.vehicle_url)
Keyless(car) == Absent(car.vin) /\ Absent(car.vehicle_url)
VinKey(car) == Upper(Strip(car.vin))
UrlKey(car) == Lower(Strip(car.vehicle_url))

Count(x, s) == Cardinality({i \in 1..Len(s) : s[i] = x})

\* C7: no two records of the returned survivor list carry the same
\* normalized (trimmed, lower-cased) URL, for either value of prefer_latest.
C7_UniqueUrl ==
    Returned =>
        \A i, j \in 1..Len(deduplicated) :
            (i < j /\ HasUrl(deduplicated[i]) /\ HasUrl(deduplicated[j]))
                => UrlKey(deduplicated[i]) # UrlKey(deduplicated[j])

\* C8: no two records of the returned survivor list carry the same
\* normalized (trimmed, upper-cased) VIN, for either value of prefer_latest.
C8_UniqueVin ==
    Returned =>
        \A i, j \in 1..Len(deduplicated) :
            (i < j /\ HasVin(deduplicated[i]) /\ HasVin(deduplicated[j]))
                => VinKey(deduplicated[i]) # VinKey(deduplicated[j])

\* a returned list with two survivors that carry VINs, reached through a
\* duplicate by VIN that replaced the stored survivor
C8_Witness ==
    /\ Returned
    /\ stats.duplicates_by_vin >= 1
    /\ Len(cars) = 3
    /\ Len(deduplicated) = 2
    /\ HasVin(deduplicated[1]) /\ HasVin(deduplicated[2])
    /\ deduplicated[2] = cars[3]
    /\ deduplicated[1] = cars[2]

SameVin(a, b) == HasVin(a) /\ HasVin(b) /\ VinKey(a) = VinKey(b)
SameUrl(a, b) == HasUrl(a) /\ HasUrl(b) /\ UrlKey(a) = UrlKey(b)

\* C9: a batch of two records that share a normalized VIN and differ in URL,
\* or that share a normalized URL and differ in VIN (or lack one), returns
\* exactly one survivor, for either value of prefer_latest.
C9_PairCollapses ==
    (Returned /\ Len(cars) = 2) =>
        LET a == cars[1]
            b == cars[2]
        IN  /\ (SameVin(a, b) /\ a.vehicle_url # b.vehicle_url) => Len(deduplicated) = 1
            /\ (SameUrl(a, b) /\ ~SameVin(a, b)) => Len(deduplicated) = 1

\* two records whose URLs are spelled differently but normalize to the same
\* key, with different VINs, collapsed to one survivor
C9_Witness ==
    /\ Returned
    /\ Len(cars) = 2
    /\ SameUrl(cars[1], cars[2])
    /\ cars[1].vehicle_url # cars[2].vehicle_url
    /\ HasVin(cars[1]) /\ HasVin(cars[2]) /\ ~SameVin(cars[1], cars[2])
    /\ Len(deduplicated) = 1
    /\ stats.duplicates_by_url = 1

\* C10: a record with neither VIN nor URL is never counted as a duplicate
\* and, once processed, stays in the survivor list whatever is processed
\* around it: every keyless input occurs among the survivors as often as in
\* the input, and the duplicate counters count keyed records only.
C10_KeylessSurvives ==
    /\ \A i \in 1..Len(cars) :
           Keyless(cars[i]) => Count(cars[i], deduplicated) = Count(cars[i], cars)
    /\ stats.duplicates_by_vin + stats.duplicates_by_url
           <= Cardinality({i \in 1..Len(cars) : ~Keyless(cars[i])})

\* a keyless record between a stored survivor and the newer record that
\* replaced it, and a second keyless record equal to the first one's keys
C10_Witness ==
    /\ Returned
    /\ Len(cars) = 3
    /\ Keyless(cars[2])
    /\ stats.duplicates_by_vin + stats.duplicates_by_url = 1
    /\ deduplicated = <<cars[2], cars[3]>>

\* the batch is not empty, every record carries the same VIN and a timestamp
OneVinStamped ==
    /\ Len(cars) >= 1
    /\ \A i \in 1..Len(cars) :
          /\ HasVin(cars[i]) /\ VinKey(cars[i]) = VinKey(cars[1])
          /\ cars[i].scraped_at # NoneDt

\* instant a is not before instant b
NotBefore(a, b) == a[1] > b[1] \/ (a[1] = b[1] /\ a[2] >= b[2])

\* the position of the first record whose timestamp no other record exceeds
FirstLatest ==
    CHOOSE i \in 1..Len(cars) :
        /\ \A j \in 1..Len(cars) : NotBefore(cars[i].scraped_at, cars[j].scraped_at)
        /\ \A j \in 1..(i - 1) : cars[j].scraped_at # cars[i].scraped_at

\* C11: for a batch whose records all share one VIN and all carry
\* timestamps, one record survives: with prefer_latest the first-processed
\* record among those with the greatest timestamp, without prefer_latest the
\* first record processed.
C11_SameVinSurvivor ==
    (Returned /\ OneVinStamped)
       => /\ Len(deduplicated) = 1
          /\ deduplicated[1] = IF prefer_latest THEN cars[FirstLatest] ELSE cars[1]

\* three records of one VIN under prefer_latest: an older one, then two
\* different records with the same greatest timestamp; the second survived
C11_Witness ==
    /\ Returned /\ OneVinStamped /\ prefer_latest
    /\ Len(cars) = 3
    /\ DtGreater(cars[2].scraped_at, cars[1].scraped_at)
    /\ cars[3].scraped_at = cars[2].scraped_at
    /\ cars[3] # cars[2]
    /\ deduplicated = <<cars[2]>>

-----------------------------------------------------------------------------
(* Properties of cli.main *)

CliEnded == pc = "cli_exited"

\* C12: every run of the CLI that has ended has printed the validation
\* summary exactly once.
C12_SummaryOnce == CliEnded => hist.reports = 1

-----------------------------------------------------------------------------
(* Properties of a failing save() *)

\* a step in which open, json.dump or replace raised inside save()
SaveFailedStep ==
    /\ pc \in {"save_open", "save_write", "save_replace"}
    /\ hist'.sv_phase = "failed"

\* C13: when writing the temporary file or the rename fails, save() returns
\* to its caller: the file at the checkpoint path is the one that was there
\* before the call, and scrape_all goes on, to the next source when one is
\* left and to its final save otherwise.
C13_SaveFailureContained ==
    [][SaveFailedStep =>
          /\ fs'[checkpoint_file] = hist.sv_old
          /\ ret = "loop" =>
                /\ idx' = idx + 1
                /\ pc' = IF idx < Len(remaining) THEN "loop" ELSE "final"
          /\ ret = "final" => pc' = "done"
          /\ pc' # "dead"]_vars

\* the save after the first of two sources failed while the temporary file
\* was being written, over an existing checkpoint file, and the run is at
\* the second source
C13_Witness ==
    /\ hist.sv_phase = "failed"
    /\ pc = "loop" /\ idx = 2
    /\ fs[temp_file] = PartialFile
    /\ fs[checkpoint_file] # NoFile
    /\ fs[checkpoint_file] = hist.sv_old

-----------------------------------------------------------------------------
(* Properties of completion tracking *)

\* scrape_all has computed its list of remaining dealerships
RunStarted == pc \in {"loop", "final", "done", "save_begin", "save_open", "save_write",
                      "save_replace"}

\* every completed name of the loaded checkpoint is the name of a catalog
\* entry that an earlier run handled
ResumedFromOwnRuns ==
    \A name \in hist.resumed :
        \E i \in 1..Len(catalog) :
            catalog[i].name = name /\ catalog[i].id \in hist.done_prior

\* C14: a catalog entry that no earlier run handled is not skipped by a
\* resumed run and is not reported completed, whatever other entries were
\* completed, also when two entries have the same name.
C14_PerEntryCompletion ==
    (RunStarted /\ ResumedFromOwnRuns)
       => \A i \in 1..Len(catalog) :
             catalog[i].id \notin hist.done_prior
                => /\ \E k \in 1..Len(remaining) : remaining[k] = catalog[i]
                   /\ catalog[i].name \notin hist.resumed

-----------------------------------------------------------------------------
(* Properties of CarListing.price *)

\* the first of the three price fields that is not None, 0 when all are None
FirstNonNull(car) ==
    IF car.sale_price # NoneNum THEN car.sale_price[1]
    ELSE IF car.total_price # NoneNum THEN car.total_price[1]
    ELSE IF car.msrp # NoneNum THEN car.msrp[1]
    ELSE 0

\* C15: the derived price of a record is the first non-null of (salePrice,
\* totalPrice, msrp) in that order and 0 only when all three are null; a
\* salePrice of 0 gives price 0 even when totalPrice or msrp is positive.
C15_FirstNonNull ==
    fn = "price" => retval = FirstNonNull(arg)

-----------------------------------------------------------------------------
(* Properties of DataValidator.validate_listing *)

Validated == fn = "validate_listing"

\* the errors among the returned issues, the price error apart
OtherErrors == {i \in retval.issues : i[1] # "WARNING: " /\ i # <<"price_missing">>}

\* the record's derived price is 0 and it violates no other hard rule
ZeroPriceOnly == Validated /\ price(arg.car) = 0 /\ OtherErrors = {}

\* C16: for a record that violates no other hard rule, a derived price of 0
\* makes validate_listing return valid with a warning-prefixed price issue
\* under strict=false, and invalid with a price error under strict=true.
C16_StrictnessGate ==
    ZeroPriceOnly =>
        IF arg.strict
        THEN ~retval.is_valid /\ <<"price_missing">> \in retval.issues
        ELSE /\ retval.is_valid
             /\ <<"WARNING: ", "price_missing">> \in retval.issues
             /\ <<"price_missing">> \notin retval.issues

C16_Witness ==
    /\ ZeroPriceOnly
    /\ ~arg.strict
    /\ arg.car.sale_price = Some(0)
    /\ retval.is_valid
    /\ <<"WARNING: ", "price_missing">> \in retval.issues

-----------------------------------------------------------------------------
(* Properties of _extract_price_from_page *)

\* C17: for page text with an MSRP-labelled and a sale-labelled amount
\* ("MSRP $45,000 ... Sale Price $41,500") the extraction yields msrp = the
\* MSRP amount, salePrice = the sale amount, and totalPrice = salePrice
\* when no total-labelled amount is present.
C17_PriceClassification ==
    (fn = "_extract_price_from_page" /\ arg \in PricePages /\ arg.total = NoneNum) =>
        /\ retval.msrp = Some(arg.msrp)
        /\ retval.sale_price = Some(arg.sale)
        /\ retval.total_price = Some(arg.sale)

\* the least of a non-empty set of amounts
Least(S) == CHOOSE n \in S : \A m \in S : n <= m

\* C21: whenever at least one dollar amount on the page is classified by a
\* sale keyword, the resulting salePrice is the minimum of the
\* sale-classified amounts, whatever unclassified amounts appear on the page
\* and in whatever order the amounts are processed.
C21_SaleIsLeastLabelled ==
    (fn = "_extract_price_from_page" /\ arg \in SalePages) =>
        retval.sale_price = Some(Least(arg.sales))

-----------------------------------------------------------------------------
(* Properties of parse_detail_page *)

\* what the extractor found on the page it was given, before any default
FoundNames ==
    IF fn = "parse_detail_page" THEN NamesGeneric(arg) ELSE NamesSelenium(arg)

\* C18: the extractor returns no record for a page if and only if neither a
\* make nor a model could be extracted from it; any other missing or
\* unusable attribute (the year of the title included) gives a record with
\* that attribute null or defaulted, never a dropped page.
C18_DroppedOnlyWithoutNames ==
    fn \in {"parse_detail_page", "selenium_parse_detail_page"} =>
        (retval = NoRecord <=> (~Truthy(FoundNames.make) /\ ~Truthy(FoundNames.model)))

-----------------------------------------------------------------------------
(* Properties of the records *)

RecordInvariants(car) ==
    /\ car.year >= 1900 /\ car.year <= CurrentYear + 1
    /\ (car.mileage = NoneNum \/ car.mileage[1] >= 0)
    /\ car.new_used \in {<<"new">>, <<"used">>, <<"cpo">>}
    /\ \E field \in {car.dealer_name, car.dealer_website, car.vehicle_url, car.make, car.model} :
          field # NoneStr /\ field # << >>

\* the records held by the manager, the scraper, the output and the deduplicator
RecordsInSystem ==
    Range(scraped_listings) \cup Range(all_listings) \cup Range(listings) \cup Range(output)
      \cup Range(cars) \cup Range(deduplicated)

\* C19: every record that exists in the system, constructed by the extractor
\* or restored by load(), has its year in [1900, currentYear+1], a mileage
\* >= 0 when present, one of the three conditions, and at least one of
\* dealer name, dealer website, vehicle URL, make, model non-empty; a record
\* violating any of them is rejected at construction.
C19_RecordInvariants == \A car \in RecordsInSystem : RecordInvariants(car)

\* load() met the record of year 1800 in the file, kept the record before it
\* and rejected the rest
C19_Witness ==
    /\ fs[checkpoint_file] = BadRecordFile
    /\ load_result = "false"
    /\ Len(scraped_listings) = 1
    /\ scraped_listings[1].year = 2024

-----------------------------------------------------------------------------
(* Properties of normalize_drivetrain *)

\* the drivetrain names, in lower case and without hyphens
DrivetrainNames ==
    {<<"a", "w", "d">>,
     <<"f", "w", "d">>,
     <<"r", "w", "d">>,
     <<"4", "w", "d">>,
     <<"4", "x", "4">>,
     <<"a", "l", "l", " ", "w", "h", "e", "e", "l", " ", "d", "r", "i", "v", "e">>,
     <<"f", "r", "o", "n", "t", " ", "w", "h", "e", "e", "l", " ", "d", "r", "i", "v", "e">>,
     <<"r", "e", "a", "r", " ", "w", "h", "e", "e", "l", " ", "d", "r", "i", "v", "e">>,
     <<"f", "o", "u", "r", " ", "w", "h", "e", "e", "l", " ", "d", "r", "i", "v", "e">>,
     <<"4", "m", "a", "t", "i", "c">>,
     <<"4", "m", "o", "t", "i", "o", "n">>,
     <<"q", "u", "a", "t", "t", "r", "o">>,
     <<"x", "d", "r", "i", "v", "e">>}

\* the text names a drivetrain, whatever its case and hyphens
NamesDrivetrain(raw) ==
    /\ raw # NoneStr
    /\ \E n \in DrivetrainNames :
          Contains([i \in 1..Len(raw) |-> IF raw[i] = "-" THEN " " ELSE LowerCh(raw[i])], n)

\* C20: normalize_drivetrain is idempotent on every input it recognises
\* (its own output AWD, FWD, RWD or 4WD normalises to the same value), and
\* for a string it does not recognise, the empty string or null it returns
\* null.
C20_Idempotent ==
    /\ fn = "normalize_drivetrain_again" => retval = arg
    /\ (fn = "normalize_drivetrain" /\ ~NamesDrivetrain(arg)) => retval = NoneStr
    /\ (fn = "normalize_drivetrain" /\ NamesDrivetrain(arg)) =>
          retval \in {<<"A", "W", "D">>, <<"F", "W", "D">>, <<"R", "W", "D">>, <<"4", "W", "D">>}

C20_Witness ==
    /\ fn = "normalize_drivetrain_again"
    /\ arg = <<"4", "W", "D">>
    /\ retval = <<"4", "W", "D">>

-----------------------------------------------------------------------------
(* Properties of the condition normaliser *)

\* C22: every raw token the condition pattern recognises, in any letter case
\* and with a hyphen, a space or nothing between "Pre" and "Owned", is
\* mapped by the condition normaliser as follows: CPO and Certified
\* Pre-Owned variants to cpo, Used and Pre-Owned variants to used, New to new.
C22_ConditionMapping ==
    (fn = "_normalize_new_used" /\ arg.token # NoneStr) =>
        /\ retval.condition_raw = arg.token
        /\ retval.condition = arg.stands_for

-----------------------------------------------------------------------------
(* Properties of deduplicate_listings: statistics and survivors *)

\* C23: for every input batch and either value of preferLatest, the
\* statistics returned by deduplicate_listings satisfy
\* total = duplicatesByVin + duplicatesByUrl + final: each input record is
\* counted once as a duplicate or once as a survivor.
C23_StatsAddUp ==
    Returned =>
        stats.total = stats.duplicates_by_vin + stats.duplicates_by_url + stats.final

\* C24: every input record that deduplicate_listings drops shares a
\* normalized VIN or a normalized URL with some record of the returned
\* survivor list: no vehicle disappears without a surviving representative.
C24_DroppedHasSurvivor ==
    Returned =>
        \A i \in 1..Len(cars) :
            (\A k \in 1..Len(deduplicated) : deduplicated[k] # cars[i]) =>
                \E k \in 1..Len(deduplicated) :
                    SameVin(cars[i], deduplicated[k]) \/ SameUrl(cars[i], deduplicated[k])

\* C27: deduplicate_listings is idempotent for either value of preferLatest:
\* applied to its own survivor list it returns the same list in the same
\* order and reports zero duplicates by VIN and zero by URL.
C27_DedupIdempotent ==
    Returned =>
        LET again == DedupFold(DedupStart, deduplicated, prefer_latest)
        IN  /\ again.deduplicated = deduplicated
            /\ again.dup_vin = 0
            /\ again.dup_url = 0


\* the i-th record of a list repeats the VIN of an earlier one
VinSeenBefore(list, i) ==
    HasVin(list[i]) /\ \E j \in 1..(i - 1) : SameVin(list[j], list[i])

\* the i-th record of a list repeats the URL of an earlier one that was
\* checked by URL, which a record is unless it repeats a VIN
UrlSeenBefore(list, i) ==
    HasUrl(list[i])
    /\ \E j \in 1..(i - 1) : ~VinSeenBefore(list, j) /\ SameUrl(list[j], list[i])

\* the records of a list from the i-th on that are a first sighting on the
\* axes they are checked on, in the order of the list
RECURSIVE FirstSightingsFrom(_, _)
FirstSightingsFrom(list, i) ==
    IF i > Len(list) THEN << >>
    ELSE (IF VinSeenBefore(list, i) \/ UrlSeenBefore(list, i) THEN << >> ELSE <<list[i]>>)
         \o FirstSightingsFrom(list, i + 1)

\* C28: with preferLatest=false the survivor list is a subsequence of the
\* input in input order, consisting of exactly the records that were a first
\* sighting on the axis on which they were checked; no record is ever
\* removed from the survivor list once appended.  The list starts empty;
\* every step of the loop leaves it as it is or appends the record just
\* read, the latter exactly when that record is a first sighting; returning
\* changes nothing.
C28_FirstSightingsKept ==
    /\ [][(~prefer_latest /\ dd_pc = "loop" /\ cars' # cars) =>
            deduplicated' = deduplicated \o FirstSightingsFrom(cars', Len(cars'))]_vars
    /\ [][(~prefer_latest /\ dd_pc = "loop" /\ cars' = cars) =>
            deduplicated' = deduplicated]_vars

\* three records were read without preferLatest: the second repeats the VIN
\* of the first and is dropped unchecked by URL, the third repeats the URL
\* of the second and is kept; the first is still in the list
C28_Witness ==
    /\ Returned /\ ~prefer_latest
    /\ Len(cars) = 3
    /\ SameVin(cars[1], cars[2]) /\ ~SameUrl(cars[1], cars[2])
    /\ SameUrl(cars[2], cars[3]) /\ ~SameVin(cars[2], cars[3])
    /\ cars[1].scraped_at # NoneDt /\ cars[2].scraped_at # NoneDt
    /\ DtGreater(cars[2].scraped_at, cars[1].scraped_at)
    /\ deduplicated = <<cars[1], cars[3]>>
    /\ deduplicated = FirstSightingsFrom(cars, 1)


-----------------------------------------------------------------------------
(* Properties of the persisted checkpoint over runs *)

\* the records of the checkpoint file, as load() reads them
FileListings ==
    IF fs[checkpoint_file].kind = "json"
    THEN [i \in 1..Len(fs[checkpoint_file].data.scraped_listings) |->
            [fs[checkpoint_file].data.scraped_listings[i] EXCEPT
                !.scraped_at = IF @ = JNull THEN NoneDt ELSE fromisoformat(@)]]
    ELSE << >>

\* the records of a sequence of handled sources, in the order of handling
RECURSIVE RecordsOf(_)
RecordsOf(handled) ==
    IF handled = << >> THEN << >> ELSE Head(handled).records \o RecordsOf(Tail(handled))

\* the checkpoint file was written by a run, and no run read a file that
\* the program had not written
FileOfOwnRuns == fs[checkpoint_file].kind = "json" /\ hist.persisted.valid /\ ~hist.foreign

\* C25: at every moment of any execution with crashes, failed saves and
\* resumes, the record list of the persisted checkpoint is the
\* concatenation, in processing order, of the records produced by exactly
\* the sources in its persisted completed set, each source's records once:
\* no completed source's records are duplicated, none are missing.
C25_PersistedIsWhatWasProduced ==
    FileOfOwnRuns =>
        /\ FileCompleted = {hist.plog[i].name : i \in 1..Len(hist.plog)}
        /\ FileListings = RecordsOf(hist.plog)
        /\ \A i, j \in 1..Len(hist.plog) : i # j => hist.plog[i].id # hist.plog[j].id

\* the second run resumed after an interruption from a file that names one
\* source, handled the other and saved: the file holds the records of both
C25_Witness ==
    /\ FileOfOwnRuns
    /\ runs = 2
    /\ hist.resumed # {}
    /\ Len(hist.plog) = 2
    /\ hist.plog[1].records # << >> /\ hist.plog[2].records # << >>
    /\ hist.plog[2].name \notin hist.resumed
    /\ Len(FileListings) >= 2

\* C26: when a run that resumed from a checkpoint finishes, the output sink
\* contains every record of the final checkpoint state: the records of
\* sources completed in earlier runs as well as those of the sources
\* processed in this run.
C26_OutputHoldsCheckpoint ==
    (pc = "done" /\ load_result = "true") =>
        \A i \in 1..Len(scraped_listings) :
            \E k \in 1..Len(output) : output[k] = scraped_listings[i]

-----------------------------------------------------------------------------
(* Properties of StreamingOutputWriter *)

\* the fields of every record handed to append_cars, in the order of the calls
RECURSIVE AppendedFields(_)
AppendedFields(lists) ==
    IF lists = << >> THEN << >>
    ELSE [i \in 1..Len(Head(lists)) |-> FieldLines(Head(lists)[i])]
         \o AppendedFields(Tail(lists))

\* C29: for a StreamingOutputWriter in json format, after initialisation, any
\* number (zero or more) of append_cars calls with non-empty lists, and
\* finalize, the output file is one well-formed JSON document whose cars
\* array holds every appended record exactly once in append order, and
\* get_count returns the number of appended records.
C29_WellFormedOutput ==
    /\ w_pc \in {"finalized", "counted"} =>
          /\ json_load(out_text).ok
          /\ json_load(out_text).cars = AppendedFields(appended)
    /\ w_pc = "counted" => w_count = <<Len(AppendedFields(appended))>>

-----------------------------------------------------------------------------
(* Properties of _extract_fuel_type_from_page *)

\* what each strategy of the chain yields for a page, normalized, in the
\* order of the chain
FuelChain(html) ==
    LET page_text == get_text(html.leaves)
        engine_text == first_group(page_text, ENGINE_REGEX)
        engine_elements == ElectricEngineElements(html.leaves)
    IN  <<IF html.json_ld # << >> THEN _normalize_fuel_type(html.json_ld[1]) ELSE NoneStr,
          _normalize_fuel_type(first_group(page_text, FUEL_TYPE_LABEL_REGEX)),
          _normalize_fuel_type(first_group(page_text, FUEL_TYPE_VALUE_REGEX)),
          IF Truthy(engine_text) /\ regex_is_electric(engine_text)
          THEN _normalize_fuel_type(engine_text) ELSE NoneStr,
          _normalize_fuel_type(_extract_field_value(page_text)),
          IF engine_elements # << >> THEN _normalize_fuel_type(Head(engine_elements)) ELSE NoneStr>>

\* C30: fuel-type extraction returns the first non-null normalized value
\* along its priority chain (structured data, label regex, bare-keyword
\* regex, engine description, keyword-proximity fallback): it returns null
\* only if every strategy of the chain yields no value that normalizes to a
\* fuel type.
C30_FirstNonNullOfChain ==
    fn = "_extract_fuel_type_from_page" =>
        With(SelectSeq(FuelChain(arg), LAMBDA v : v # NoneStr), LAMBDA found :
            retval = IF found = << >> THEN NoneStr ELSE Head(found))

====
